---- MODULE Spec2Model ----
(***************************************************************************)
(* Lucidian: the agent loop, its credentials, the round accumulator, the   *)
(* decoder of the wire stream and the tool executor of the two Copilot     *)
(* providers (copilot-plugin's AgentLoop/ToolExecutor and the              *)
(* CopilotService/CopilotToolExecutor of src/core/copilot).                *)
(*                                                                         *)
(* Text is modelled as a sequence of one-character strings, so that        *)
(* concatenation, prefix tests and substring search are computed as the    *)
(* JavaScript string operations compute them.                              *)
(***************************************************************************)
EXTENDS Integers, Sequences, FiniteSets, TLC

VARIABLES
    \* ---- editFile on one file (SpecEdit) ----
    executor,       \* which executor class runs: "ToolExecutor" | "CopilotToolExecutor"
    fileContent,    \* the content of the edited file on disk
    editArgs,       \* [old_string, new_string] of the edit call
    editLog,        \* one entry per edit call made: [before, result, after]
    \* ---- execute(name, args) of a tool executor (SpecExec) ----
    vaultPath,      \* the confinement root the executor was constructed with
    files,          \* the file system: path of each existing file -> content
    call,           \* the execute() call being served: [tool, args]
    execPc,         \* "idle" | "child" (awaiting exec's callback) | "returned" | "unresolved"
    result,         \* the ToolResult of the last call that returned
    filesBefore,    \* the file system when the current call was made
    spawned,        \* child processes started by the current call
    execCalls,      \* execute() calls made so far
    \* ---- one round of the round accumulator (SpecAcc, and the loop) ----
    impl,           \* which loop runs: "AgentLoop" | "CopilotService"
    fullText,       \* the text accumulated in the round (fullText / textContent)
    toolCalls,      \* the round's Map index -> descriptor, as its entries in insertion order
    now,            \* the clock Date.now() reads
    accPc,          \* "streaming" | "finished", or how streamOneRound left through
                    \* its catch: "failed" (error) | "aborted" (aborted: true)
    roundToolCalls, \* the tool-call list of the finished round
    sentArgs,       \* per index, the non-empty arguments slices delivered, in order
    sentNames,      \* per index, the non-empty names delivered, in order
    nFrags,         \* tool-call fragments delivered in the round
    \* ---- one send of AgentLoop / one query of CopilotService (Spec) ----
    pc,             \* where the send is: "idle" | "token" | "request" | "stream" |
                    \* "chunk" | "fallback" | "exec" | "refresh" | "done"
    messages,       \* the history (this.messages / the messages array of query)
    rounds,         \* rounds begun in this send (rounds / round + 1)
    requests,       \* chat requests this send issued to the API
    events,         \* the callbacks made / chunks yielded in this send, in order
    chunkPos,       \* wire chunks of the round consumed so far
    execIdx,        \* the tool call of the round being executed
    results,        \* toolResults of executeToolCalls
    abortController,\* this.abortController: "null" | "live"
    aborted,        \* signal.aborted of the controller this send created
    roundSignal,    \* the signal streamChat was handed for the round: "none" | "live"
    script,         \* what the API, the token endpoint and the tools answer
    cancelled,      \* cancel() was called during this send
    cancelPc,       \* where the send was when cancel() was called
    eventsAtCancel, \* how many events had been delivered when cancel() was called
    lenAtRoundStart,\* the length of the history when the current round began
    \* ---- the credentials of the loop ----
    pat,            \* this.pat: the long-lived secret the loop was given
    token,          \* this.token / this.copilotToken: the cached credential
    bearer,         \* the local token of send / query: what chat requests carry
    exchPat,        \* the secret the pending fetchCopilotToken was called with
    exchanges,      \* requests made to the token endpoint
    sendNo,         \* sends begun
    settingsPat,    \* plugin.settings.pat
    agentLoop,      \* ChatView.agentLoop: "null" | "live"
    \* ---- one call of streamChat, the decoder of the wire stream (SpecWire) ----
    wire,           \* the response body, as the pieces reader.read() delivers
    wirePos,        \* pieces read (fetch) / lines handled (requestUrl) so far
    buffer,         \* the text read but not yet split into lines
    decoded,        \* the chunks the generator has yielded, in order
    wirePc,         \* "opening" | "reading" | "returned" | "threw"
    doneAt,         \* how many chunks had been yielded when the line
                    \* data: [DONE] was read; -1 while it has not been read
    \* ---- the chat view and the sends it starts (SpecUI) ----
    inputStreaming, \* InputController.isStreaming
    stateStreaming, \* ChatState.isStreaming
    viewLoop,       \* ChatView.agentLoop: 0 for null, or the loop object
    loops,          \* AgentLoop objects constructed so far
    history,        \* this.messages of each loop object, as the roles of its messages
    controller,     \* this.abortController of each loop object: 0 for null, or
                    \* the send that created it
    sends           \* the calls of send made, in order: [loop, at, aborted, rounds],
                    \* at: "token" | "request" | "exec" | "returned"

editVars == <<fileContent, editArgs, editLog>>
execVars == <<vaultPath, files, call, execPc, result, filesBefore, spawned, execCalls>>

accVars == <<impl, fullText, toolCalls, now, accPc, roundToolCalls, sentArgs, sentNames, nFrags>>

loopVars == <<pc, messages, rounds, requests, events, chunkPos, execIdx, results,
              abortController, aborted, roundSignal, script, cancelled, cancelPc,
              eventsAtCancel, lenAtRoundStart>>

credVars == <<pat, token, bearer, exchPat, exchanges, sendNo, settingsPat, agentLoop>>

wireVars == <<wire, wirePos, buffer, decoded, wirePc, doneAt>>

uiVars == <<inputStreaming, stateStreaming, viewLoop, loops, history, controller, sends>>

vars == <<executor, editVars, execVars, accVars, loopVars, credVars, wireVars, uiVars>>

Executors == {"ToolExecutor", "CopilotToolExecutor"}

(***************************************************************************)
(* Bounds of the model.                                                    *)
(***************************************************************************)
MaxContentLen == 3
MaxArgLen == 2
MaxEditCalls == 2

\* the characters file contents and edit arguments are drawn from
EditAlphabet == {"a", "$", "&"}

StringsUpTo(alphabet, n) == UNION {[1..k -> alphabet] : k \in 0..n}

\* stands for an argument or a field that is not there (undefined)
Absent == <<"absent">>

(***************************************************************************)
(* JavaScript string primitives used by the executors.                     *)
(***************************************************************************)
\* s.startsWith(p)
StartsWith(s, p) == Len(p) <= Len(s) /\ SubSeq(s, 1, Len(p)) = p

\* s.indexOf(p) + 1 (0 when p does not occur); the empty p is found at 1
IndexOf(s, p) ==
    LET hits == {i \in 1..(Len(s) - Len(p) + 1) : SubSeq(s, i, i + Len(p) - 1) = p}
    IN IF hits = {} THEN 0 ELSE CHOOSE i \in hits : \A j \in hits : i <= j

\* s.includes(p)
Includes(s, p) == IndexOf(s, p) # 0

\* s.split(sep).length: an empty separator splits into the characters of s
\* (none for the empty s); otherwise the pieces between the occurrences
\* found left to right, each search resuming after the previous occurrence
RECURSIVE SplitLength(_, _)
SplitLength(s, sep) ==
    IF sep = <<>> THEN Len(s)
    ELSE LET i == IndexOf(s, sep)
         IN IF i = 0 THEN 1
            ELSE 1 + SplitLength(SubSeq(s, i + Len(sep), Len(s)), sep)

\* GetSubstitution of String.prototype.replace with a string pattern (no
\* captures): $$ is a dollar, $& the match, $` the text before the match,
\* $' the text after it; any other $ stays as it is
RECURSIVE GetSubstitution(_, _, _, _)
GetSubstitution(matched, before, after, replacement) ==
    IF replacement = <<>> THEN <<>>
    ELSE IF Head(replacement) = "$" /\ Len(replacement) >= 2
         THEN LET c == replacement[2]
                  rest == SubSeq(replacement, 3, Len(replacement))
              IN CASE c = "$" -> <<"$">> \o GetSubstitution(matched, before, after, rest)
                   [] c = "&" -> matched \o GetSubstitution(matched, before, after, rest)
                   [] c = "`" -> before \o GetSubstitution(matched, before, after, rest)
                   [] c = "'" -> after \o GetSubstitution(matched, before, after, rest)
                   [] OTHER -> <<"$">> \o GetSubstitution(matched, before, after, Tail(replacement))
         ELSE <<Head(replacement)>> \o GetSubstitution(matched, before, after, Tail(replacement))

\* s.replace(pattern, replacement) with a string pattern: the first
\* occurrence only, the replacement text expanded by GetSubstitution
Replace(s, pattern, replacement) ==
    LET i == IndexOf(s, pattern)
    IN IF i = 0 THEN s
       ELSE LET before == SubSeq(s, 1, i - 1)
                after == SubSeq(s, i + Len(pattern), Len(s))
            IN before \o GetSubstitution(pattern, before, after, replacement) \o after

(***************************************************************************)
(* editFile, from the point where the file has been read.  The result is   *)
(* [isError, kind, n] (n: the count the message reports) and the content   *)
(* the file has afterwards.                                                *)
(***************************************************************************)
EditOutcome(isError, kind, n, content) ==
    [result |-> [isError |-> isError, kind |-> kind, n |-> n], content |-> content]

\* the occurrence count both executors compute
Occurrences(content, oldString) == SplitLength(content, oldString) - 1

\* a slip: the zero-occurrence check is missing
ToolExecutor_editFile_NoNotFound(content, oldString, newString) ==
    LET occurrences == Occurrences(content, oldString)
    IN IF occurrences > 1
       THEN EditOutcome(TRUE, "not_unique", occurrences, content)
       ELSE EditOutcome(FALSE, "edited", 0, Replace(content, oldString, newString))

ToolExecutor_editFile(content, oldString, newString) ==
    LET occurrences == Occurrences(content, oldString)
    IN IF occurrences = 0
       THEN EditOutcome(TRUE, "not_found", 0, content)
       ELSE IF occurrences > 1
            THEN EditOutcome(TRUE, "not_unique", occurrences, content)
            ELSE EditOutcome(FALSE, "edited", 0, Replace(content, oldString, newString))

CopilotToolExecutor_editFile(content, oldString, newString) ==
    LET occurrences == Occurrences(content, oldString)
    IN IF occurrences = 0
       THEN EditOutcome(TRUE, "not_found", 0, content)
       ELSE IF occurrences > 1
            THEN EditOutcome(TRUE, "not_unique", occurrences, content)
            ELSE EditOutcome(FALSE, "edited", 0, Replace(content, oldString, newString))

editFile(ex, content, oldString, newString) ==
    IF ex = "ToolExecutor"
    THEN ToolExecutor_editFile(content, oldString, newString)
    ELSE CopilotToolExecutor_editFile(content, oldString, newString)

(***************************************************************************)
(* The round accumulator.  The Map of a round is the sequence of its       *)
(* entries in insertion order, the order a JavaScript Map iterates in.     *)
(* An entry is [index, id, name, arguments]; the index stays with the      *)
(* descriptor in the finished list so that its position can be told.       *)
(* A wire fragment is [index, id, name, arguments], id Absent when the     *)
(* fragment carries none, name and arguments empty when it carries none.   *)
(***************************************************************************)
Impls == {"AgentLoop", "CopilotService"}

MapHas(m, index) == \E k \in 1..Len(m) : m[k].index = index
MapPos(m, index) == CHOOSE k \in 1..Len(m) : m[k].index = index
MapGet(m, index) == m[MapPos(m, index)]

RECURSIVE Flatten(_)
Flatten(pieces) == IF pieces = <<>> THEN <<>> ELSE Head(pieces) \o Flatten(Tail(pieces))

\* `tc_${tc.index}_${Date.now()}`
SynthesizedId(index, time) == <<"tc_", ToString(index), "_", ToString(time)>>

\* a callback made / a chunk yielded to the caller
\* (input: the parsed arguments a tool event carries)
ToolEvent(type, id, data, isError, input) ==
    [type |-> type, id |-> id, data |-> data, isError |-> isError, input |-> input]

Event(type, id, data, isError) == ToolEvent(type, id, data, isError, Absent)

\* the text of a JSON object, as its tokens: "{", the members, "}"
IsJSONObject(text) ==
    /\ Len(text) >= 2
    /\ text[1] = "{"
    /\ text[Len(text)] = "}"
    /\ \A k \in 2..(Len(text) - 1) : text[k] \notin {"{", "}"}

EmptyObject == <<>>

\* a slip: the arguments text is passed on unparsed
ParseArguments_Unparsed(arguments) == arguments

\* try { input = JSON.parse(tc.function.arguments) } catch { input = {} }:
\* the members of the object
ParseArguments(arguments) ==
    IF IsJSONObject(arguments) THEN SubSeq(arguments, 2, Len(arguments) - 1)
    ELSE EmptyObject

\* a slip: the arguments slice replaces what was accumulated
processRound_fragment_Overwrite(m, tc) ==
    LET m1 == IF MapHas(m, tc.index) THEN m
              ELSE Append(m, [index |-> tc.index,
                              id |-> IF tc.id = Absent THEN <<>> ELSE tc.id,
                              name |-> <<>>, arguments |-> <<>>])
        k == MapPos(m1, tc.index)
        e1 == IF tc.id # Absent /\ tc.id # <<>> THEN [m1[k] EXCEPT !.id = tc.id] ELSE m1[k]
        e2 == IF tc.name # <<>> THEN [e1 EXCEPT !.name = tc.name] ELSE e1
        e3 == IF tc.arguments # <<>> THEN [e2 EXCEPT !.arguments = tc.arguments] ELSE e2
    IN [map |-> [m1 EXCEPT ![k] = e3], events |-> <<>>]

\* AgentLoop.processRound, one fragment of delta.tool_calls: the Map
\* afterwards and the callbacks made
processRound_fragment(m, tc) ==
    LET m1 == IF MapHas(m, tc.index) THEN m
              ELSE Append(m, [index |-> tc.index,
                              id |-> IF tc.id = Absent THEN <<>> ELSE tc.id,
                              name |-> <<>>, arguments |-> <<>>])
        k == MapPos(m1, tc.index)
        e1 == IF tc.id # Absent /\ tc.id # <<>> THEN [m1[k] EXCEPT !.id = tc.id] ELSE m1[k]
        e2 == IF tc.name # <<>> THEN [e1 EXCEPT !.name = tc.name] ELSE e1
        ev2 == IF tc.name # <<>>
               THEN <<Event("tool-start", e2.id, e2.name, FALSE)>>
               ELSE <<>>
        e3 == IF tc.arguments # <<>> THEN [e2 EXCEPT !.arguments = @ \o tc.arguments] ELSE e2
        ev3 == IF tc.arguments # <<>>
               THEN <<Event("tool-input-progress", e3.id, e3.arguments, FALSE)>>
               ELSE <<>>
    IN [map |-> [m1 EXCEPT ![k] = e3], events |-> ev2 \o ev3]

\* CopilotService.streamOneRound, one fragment of delta.tool_calls
streamOneRound_fragment(m, tc, time) ==
    IF ~MapHas(m, tc.index)
    THEN [map |-> Append(m, [index |-> tc.index,
                             id |-> IF tc.id = Absent THEN SynthesizedId(tc.index, time)
                                    ELSE tc.id,
                             name |-> tc.name, arguments |-> tc.arguments]),
          events |-> <<>>]
    ELSE LET k == MapPos(m, tc.index)
             e1 == IF tc.arguments # <<>> THEN [m[k] EXCEPT !.arguments = @ \o tc.arguments]
                   ELSE m[k]
             e2 == IF tc.name # <<>> THEN [e1 EXCEPT !.name = tc.name] ELSE e1
         IN [map |-> [m EXCEPT ![k] = e2], events |-> <<>>]

AccumulateFragment(im, m, tc, time) ==
    IF im = "AgentLoop" THEN processRound_fragment(m, tc)
    ELSE streamOneRound_fragment(m, tc, time)

\* the fragments of one chunk, in order: [map, events]
RECURSIVE AccumulateFragments(_, _, _, _)
AccumulateFragments(im, m, frags, time) ==
    IF frags = <<>> THEN [map |-> m, events |-> <<>>]
    ELSE LET one == AccumulateFragment(im, m, Head(frags), time)
             rest == AccumulateFragments(im, one.map, Tail(frags), time)
         IN [map |-> rest.map, events |-> one.events \o rest.events]

\* the entries in ascending order of their index
RECURSIVE SortByIndex(_)
SortByIndex(m) ==
    IF m = <<>> THEN <<>>
    ELSE LET k == CHOOSE i \in 1..Len(m) : \A j \in 1..Len(m) : m[i].index <= m[j].index
         IN <<m[k]>> \o SortByIndex(SubSeq(m, 1, k - 1) \o SubSeq(m, k + 1, Len(m)))

\* AgentLoop.processRound: Array.from(toolCalls.values()).map(...)
processRound_toolCalls(m) == m

\* CopilotService.streamOneRound: Array.from(entries()).sort(by index).map(...)
streamOneRound_toolCalls(m) == SortByIndex(m)

FinishedToolCalls(im, m) ==
    IF im = "AgentLoop" THEN processRound_toolCalls(m) ELSE streamOneRound_toolCalls(m)

(***************************************************************************)
(* Paths.  A path is text; "/" separates its segments.                     *)
(***************************************************************************)
\* the segments of a path, in order ("" between two slashes included)
RECURSIVE SplitPath(_)
SplitPath(p) ==
    LET i == IndexOf(p, <<"/">>)
    IN IF i = 0 THEN <<p>>
       ELSE <<SubSeq(p, 1, i - 1)>> \o SplitPath(SubSeq(p, i + 1, Len(p)))

\* the segments with "" and "." dropped and each ".." taking back the
\* segment before it (none at the root)
RECURSIVE NormalizeSegments(_, _)
NormalizeSegments(segs, acc) ==
    IF segs = <<>> THEN acc
    ELSE LET h == Head(segs)
         IN IF h = <<>> \/ h = <<".">>
            THEN NormalizeSegments(Tail(segs), acc)
            ELSE IF h = <<".", ".">>
                 THEN NormalizeSegments(Tail(segs),
                          IF acc = <<>> THEN acc ELSE SubSeq(acc, 1, Len(acc) - 1))
                 ELSE NormalizeSegments(Tail(segs), Append(acc, h))

RECURSIVE JoinAbsolute(_)
JoinAbsolute(segs) ==
    IF segs = <<>> THEN <<>>
    ELSE <<"/">> \o Head(segs) \o JoinAbsolute(Tail(segs))

\* path.resolve(base, p) for an absolute base: p alone when it is absolute,
\* base/p otherwise, normalized, without a trailing slash
PathResolve(base, p) ==
    LET whole == IF StartsWith(p, <<"/">>) THEN p ELSE base \o <<"/">> \o p
        segs == NormalizeSegments(SplitPath(whole), <<>>)
    IN IF segs = <<>> THEN <<"/">> ELSE JoinAbsolute(segs)

\* path.dirname of an absolute normalized path
Dirname(p) ==
    LET segs == NormalizeSegments(SplitPath(p), <<>>)
    IN IF Len(segs) <= 1 THEN <<"/">> ELSE JoinAbsolute(SubSeq(segs, 1, Len(segs) - 1))

\* resolvePath: [ok, path]; ok = FALSE is the thrown path-traversal error
resolvePath(root, relativePath) ==
    LET resolved == PathResolve(root, relativePath)
    IN [ok |-> StartsWith(resolved, root), path |-> resolved]

\* the file system as the fs calls see it
IsFile(fs, p) == p \in DOMAIN fs
IsDir(fs, p) == p = <<"/">> \/ \E f \in DOMAIN fs : StartsWith(f, p \o <<"/">>)
\* a file stands where a directory of the path p would have to be
FileOnTheWay(fs, p) == \E f \in DOMAIN fs : StartsWith(p, f \o <<"/">>)

\* new RegExp(pattern) succeeds; of the pattern syntax only groups are
\* kept: an unbalanced parenthesis is a SyntaxError
RegExpValid(pattern) ==
    Cardinality({i \in 1..Len(pattern) : pattern[i] = "("})
        = Cardinality({i \in 1..Len(pattern) : pattern[i] = ")"})

(***************************************************************************)
(* The tools.                                                              *)
(***************************************************************************)
READ == "read_file"
WRITE == "write_file"
EDIT == "edit_file"
BASH == "bash"
GREP == "grep"
GLOB == "glob"
LS == "list_directory"
ToolNames == {READ, WRITE, EDIT, BASH, GREP, GLOB, LS}

ToolResult(isError, kind) == [isError |-> isError, kind |-> kind, n |-> 0]
NoResult == [isError |-> FALSE, kind |-> "none", n |-> 0]

\* String(args.file_path) in ToolExecutor, String(args.file_path ?? '') in
\* CopilotToolExecutor
FilePathArg(ex, args) ==
    IF args.file_path = Absent
    THEN IF ex = "ToolExecutor"
         THEN <<"u", "n", "d", "e", "f", "i", "n", "e", "d">>
         ELSE <<>>
    ELSE args.file_path

\* the directory grep, glob and ls work on: [ok, path].  ToolExecutor
\* resolves "." when there is no path (an empty path counts as none),
\* CopilotToolExecutor takes the vault path unresolved
SearchPath(ex, root, args) ==
    IF args.path = Absent \/ args.path = <<>>
    THEN IF ex = "ToolExecutor" THEN resolvePath(root, <<".">>)
         ELSE [ok |-> TRUE, path |-> root]
    ELSE resolvePath(root, args.path)

\* the commands bash refuses, as the words of the command text
blocklist == {<<"rm", " ", "-rf", " ", "/">>, <<"rm", " ", "-rf", " ", "~">>,
              <<"mkfs">>, <<"dd", " ", "if=">>, <<":(){:|:&};:">>}
BLOCKED_COMMANDS == {<<"rm", " ", "-rf", " ", "/">>, <<"rm", " ", "-rf", " ", "~">>,
                     <<"mkfs">>, <<"dd", " ", "if=">>, <<":(){", " ", ":|:&", " ", "};:">>}

\* a slip: the command is compared with the list instead of searched
Blocked_WholeCommand(ex, command) ==
    command \in (IF ex = "ToolExecutor" THEN blocklist ELSE BLOCKED_COMMANDS)

\* for (const blocked of blocklist) if (command.includes(blocked)) ...
Blocked(ex, command) ==
    \E b \in (IF ex = "ToolExecutor" THEN blocklist ELSE BLOCKED_COMMANDS) :
        Includes(command, b)

\* readFile / writeFile / editFile / ls after resolvePath succeeded:
\* [result, files] ; an fs call that throws is the caught "fs_error"
FsOutcome(res, fs) == [result |-> res, files |-> fs]

readFile(fs, p) ==
    IF IsFile(fs, p) THEN FsOutcome(ToolResult(FALSE, "content"), fs)
    ELSE FsOutcome(ToolResult(TRUE, "fs_error"), fs)

writeFile(fs, p, content) ==
    IF IsDir(fs, p) \/ FileOnTheWay(fs, p)
    THEN FsOutcome(ToolResult(TRUE, "fs_error"), fs)
    ELSE FsOutcome(ToolResult(FALSE, "written"), (p :> content) @@ fs)

editFileAt(ex, fs, p, oldString, newString) ==
    IF ~IsFile(fs, p) THEN FsOutcome(ToolResult(TRUE, "fs_error"), fs)
    ELSE LET out == editFile(ex, fs[p], oldString, newString)
         IN FsOutcome(out.result, (p :> out.content) @@ fs)

ls(fs, p) ==
    IF IsDir(fs, p) THEN FsOutcome(ToolResult(FALSE, "listing"), fs)
    ELSE FsOutcome(ToolResult(TRUE, "fs_error"), fs)

(***************************************************************************)
(* SpecExec: execute(toolName, args) on a small file system.               *)
(***************************************************************************)
MaxPathSegs == 3
MaxExecCalls == 1

Root == <<"/", "a", "/", "v">>
\* a vault directory whose name is no valid regular expression
RootParen == <<"/", "a", "/", "(">>

SegNames == {<<".", ".">>, <<"f">>, <<"v", "x">>}

RECURSIVE JoinRelative(_)
JoinRelative(segs) ==
    IF segs = <<>> THEN <<>>
    ELSE IF Len(segs) = 1 THEN Head(segs)
         ELSE Head(segs) \o <<"/">> \o JoinRelative(Tail(segs))

PathArgs ==
    LET segLists == UNION {[1..k -> SegNames] : k \in 0..MaxPathSegs}
    IN {JoinRelative(l) : l \in segLists} \cup {<<"/">> \o JoinRelative(l) : l \in segLists}

Commands == {<<"ls">>, <<"rm", " ", "-rf", " ", "/">>, <<":(){", " ", ":|:&", " ", "};:">>,
             <<":(){:|:&};:">>, <<"cd", " ", "x", ";", "rm", " ", "-rf", " ", "/", "tmp">>}

NoArgs == [file_path |-> Absent, path |-> Absent, content |-> <<>>,
           old_string |-> <<>>, new_string |-> <<>>, command |-> <<>>]

\* the argument mappings tried for a tool
ArgsOf(tool) ==
    CASE tool \in {READ} ->
            {[NoArgs EXCEPT !.file_path = p] : p \in PathArgs \cup {Absent}}
      [] tool = WRITE ->
            {[NoArgs EXCEPT !.file_path = p, !.content = <<"b">>] : p \in PathArgs \cup {Absent}}
      [] tool = EDIT ->
            {[NoArgs EXCEPT !.file_path = p, !.old_string = <<"a">>, !.new_string = <<"b">>] :
                p \in PathArgs \cup {Absent}}
      [] tool = BASH -> {[NoArgs EXCEPT !.command = c] : c \in Commands}
      [] tool \in {GREP, GLOB, LS} ->
            {[NoArgs EXCEPT !.path = p] : p \in PathArgs \cup {Absent}}
      [] OTHER -> {NoArgs}

NoCall == [tool |-> "none", args |-> NoArgs]

InitialFiles ==
    (<<"/", "a", "/", "v", "/", "f">> :> <<"a">>)
    @@ (<<"/", "a", "/", "v", "x", "/", "f">> :> <<"a">>)
    @@ (<<"/", "a", "/", "(", "/", "f">> :> <<"a">>)
    @@ (<<"/", "a", "/", "f">> :> <<"a">>)

Indices == {0, 1}
WireIds == {<<"i">>}
NamePieces == {<<"n">>, <<"m">>}
ArgPieces == {<<"a">>, <<"b">>}
TextPieces == {<<"t">>}

Fragments == [index : Indices, id : WireIds \cup {Absent},
              name : NamePieces \cup {<<>>}, arguments : ArgPieces \cup {<<>>}]

Null == <<"null">>

\* long-lived secrets: the empty string, and two that GitHub issued
NoPat == <<>>
P1 == <<"pat1">>
P2 == <<"pat2">>

\* the bearer credential the token endpoint issues for the secret p
BearerOf(p) == <<"token-of-">> \o p

\* a CopilotToken, and the empty cache
CopilotToken(p, expiresAt) == [token |-> BearerOf(p), expiresAt |-> expiresAt]
NoToken == [token |-> Null, expiresAt |-> 0]

MaxSends == 2
MaxTicks == 3
\* what one tick adds to the clock, in milliseconds
TickMs == 500
\* the lifetime of an issued credential, in seconds
TokenLifetime == 301

bufferSeconds == 300

\* a slip: the buffer window left out
isTokenExpired_NoBuffer(expiresAt) == now >= expiresAt * 1000

\* Date.now() / 1000 >= expiresAt - bufferSeconds, Date.now() in milliseconds
isTokenExpired(expiresAt) == now >= (expiresAt - bufferSeconds) * 1000

\* the guard of ensureToken / ensureCopilotToken: the cache tok does not serve
NeedsExchange(tok) == tok = NoToken \/ isTokenExpired(tok.expiresAt)

NoScript == [toolRounds |-> 0, toolKind |-> "one", finalKind |-> "text", failKind |-> "none",
             failAt |-> 1, fallbackOk |-> TRUE, tokenOk |-> TRUE, toolFails |-> FALSE,
             sends |-> 1, ticks |-> 0, secret |-> "keep", pat |-> P1]

MaxLoops == 2

UiUnused ==
    /\ inputStreaming = FALSE
    /\ stateStreaming = FALSE
    /\ viewLoop = 0
    /\ loops = 0
    /\ history = [l \in 1..MaxLoops |-> <<>>]
    /\ controller = [l \in 1..MaxLoops |-> 0]
    /\ sends = <<>>

WireUnused ==
    /\ wire = <<>>
    /\ wirePos = 0
    /\ buffer = <<>>
    /\ decoded = <<>>
    /\ wirePc = "returned"
    /\ doneAt = -1

LoopUnused ==
    /\ WireUnused
    /\ pc = "idle"
    /\ messages = <<>>
    /\ rounds = 0
    /\ requests = 0
    /\ events = <<>>
    /\ chunkPos = 0
    /\ execIdx = 0
    /\ results = <<>>
    /\ abortController = "null"
    /\ aborted = FALSE
    /\ roundSignal = "none"
    /\ script = NoScript
    /\ cancelled = FALSE
    /\ cancelPc = "idle"
    /\ eventsAtCancel = 0
    /\ lenAtRoundStart = 0
    /\ pat = NoPat
    /\ token = NoToken
    /\ bearer = Null
    /\ exchPat = NoPat
    /\ exchanges = 0
    /\ sendNo = 0
    /\ settingsPat = NoPat
    /\ agentLoop = "null"

AccUnused ==
    /\ impl = "AgentLoop"
    /\ fullText = <<>>
    /\ toolCalls = <<>>
    /\ now = 0
    /\ accPc = "finished"
    /\ roundToolCalls = <<>>
    /\ sentArgs = [i \in Indices |-> <<>>]
    /\ sentNames = [i \in Indices |-> <<>>]
    /\ nFrags = 0

ExecUnused ==
    /\ vaultPath = Root
    /\ files = InitialFiles
    /\ call = NoCall
    /\ execPc = "idle"
    /\ result = NoResult
    /\ filesBefore = InitialFiles
    /\ spawned = 0
    /\ execCalls = 0

EditUnused ==
    /\ fileContent = <<>>
    /\ editArgs = [old_string |-> <<>>, new_string |-> <<>>]
    /\ editLog = <<>>

ExecInit ==
    /\ UiUnused
    /\ executor \in Executors
    /\ vaultPath \in {Root, RootParen}
    /\ files = InitialFiles
    /\ call = NoCall
    /\ execPc = "idle"
    /\ result = NoResult
    /\ filesBefore = InitialFiles
    /\ spawned = 0
    /\ execCalls = 0
    /\ EditUnused
    /\ AccUnused
    /\ LoopUnused

\* what execute() does up to its first suspension on a child process:
\* [pc, result, files, spawned]
Dispatch(ex, root, fs, tool, args) ==
    LET done(out) == [pc |-> "returned", result |-> out.result, files |-> out.files, spawned |-> 0]
        caught(kind) == [pc |-> "returned", result |-> ToolResult(TRUE, kind), files |-> fs, spawned |-> 0]
        child == [pc |-> "child", result |-> NoResult, files |-> fs, spawned |-> 1]
        fp == resolvePath(root, FilePathArg(ex, args))
        sp == SearchPath(ex, root, args)
    IN CASE tool = READ -> IF fp.ok THEN done(readFile(fs, fp.path)) ELSE caught("traversal")
         [] tool = WRITE -> IF fp.ok THEN done(writeFile(fs, fp.path, args.content))
                            ELSE caught("traversal")
         [] tool = EDIT -> IF fp.ok
                           THEN done(editFileAt(ex, fs, fp.path, args.old_string, args.new_string))
                           ELSE caught("traversal")
         [] tool = BASH -> IF Blocked(ex, args.command)
                           THEN [pc |-> "returned", result |-> ToolResult(TRUE, "blocked"),
                                 files |-> fs, spawned |-> 0]
                           ELSE child
         [] tool \in {GREP, GLOB} -> IF sp.ok THEN child ELSE caught("traversal")
         [] tool = LS -> IF sp.ok THEN done(ls(fs, sp.path)) ELSE caught("traversal")
         [] OTHER -> [pc |-> "returned", result |-> ToolResult(TRUE, "unknown_tool"),
                      files |-> fs, spawned |-> 0]

\* execute(toolName, args), from the call to its return or to its
\* suspension on a child process
ExecuteCall(tool, args) ==
    /\ execPc \in {"idle", "returned"}
    /\ LET d == Dispatch(executor, vaultPath, files, tool, args)
       IN /\ execPc' = d.pc
          /\ result' = d.result
          /\ files' = d.files
          /\ spawned' = d.spawned
    /\ call' = [tool |-> tool, args |-> args]
    /\ filesBefore' = files
    /\ execCalls' = execCalls + 1
    /\ UNCHANGED <<executor, vaultPath, editVars, accVars, loopVars, credVars, wireVars, uiVars>>

Execute(tool, args) ==
    /\ execCalls < MaxExecCalls
    /\ ExecuteCall(tool, args)

\* how a child process can end: error is "none", "exit" (non-zero exit
\* code) or "killed" (the timeout); stdout and stderr are empty or not
ChildOutcomes == [error : {"none", "exit", "killed"}, stdout : BOOLEAN, stderr : BOOLEAN]

\* the callback of exec: [pc, result]
ExecCallback(ex, root, tool, o) ==
    LET ret(isError, kind) == [pc |-> "returned", result |-> ToolResult(isError, kind)]
        unresolved == [pc |-> "unresolved", result |-> NoResult]
    IN IF ex = "ToolExecutor"
       THEN CASE tool = BASH ->
                    IF o.error = "killed" THEN ret(TRUE, "timeout")
                    ELSE ret(o.error # "none", IF o.error # "none" THEN "exit" ELSE "output")
              [] tool = GREP ->
                    IF ~o.stdout THEN ret(FALSE, "no_matches")
                    ELSE IF RegExpValid(root \o <<"/">>) THEN ret(FALSE, "matches")
                         ELSE unresolved
              [] OTHER ->
                    IF ~o.stdout THEN ret(FALSE, "no_matches")
                    ELSE IF RegExpValid(root \o <<"/">>) THEN ret(FALSE, "matches")
                         ELSE unresolved
       ELSE CASE tool = BASH ->
                    IF o.error # "none"
                    THEN ret(TRUE, IF o.error = "killed" THEN "timeout" ELSE "exit")
                    ELSE ret(FALSE, "output")
              [] OTHER ->
                    IF o.error # "none" /\ ~o.stdout THEN ret(FALSE, "no_matches")
                    ELSE ret(FALSE, IF o.stdout THEN "matches" ELSE "no_matches")

ChildExit(o) ==
    /\ execPc = "child"
    /\ LET c == ExecCallback(executor, vaultPath, call.tool, o)
       IN /\ execPc' = c.pc
          /\ result' = c.result
    /\ UNCHANGED <<executor, vaultPath, files, call, filesBefore, spawned, execCalls,
                   editVars, accVars, loopVars, credVars, wireVars, uiVars>>

ExecNext ==
    \/ \E tool \in ToolNames \cup {"no_such_tool"} : \E args \in ArgsOf(tool) : Execute(tool, args)
    \/ \E o \in ChildOutcomes : ChildExit(o)

SpecExec == ExecInit /\ [][ExecNext]_vars

(***************************************************************************)
(* What the claims about execute speak of.                                 *)
(***************************************************************************)
\* p is the root or lies below it
Inside(root, p) == p = root \/ StartsWith(p, root \o <<"/">>)

PathTools == {READ, WRITE, EDIT, GREP, GLOB, LS}

\* the path argument the current call's tool works on
CallPath ==
    IF call.tool \in {READ, WRITE, EDIT} THEN FilePathArg(executor, call.args)
    ELSE IF call.args.path = Absent THEN <<".">> ELSE call.args.path

\* C3: a path argument that resolves outside the confinement root (a
\* sibling whose name starts with the root's name included) is rejected:
\* the tool returns isError: true and no file is changed.
C3_PathConfinement ==
    (call.tool \in PathTools /\ ~Inside(vaultPath, PathResolve(vaultPath, CallPath))) =>
        /\ execPc = "returned" => result.isError
        /\ files = filesBefore

FailureKinds == {"unknown_tool", "traversal", "fs_error", "not_found", "not_unique",
                 "blocked", "timeout", "exit"}

\* C7: execute is total: its promise is never left unresolved and it never
\* throws, and every failure comes back as a result with isError: true.
C7_ExecuteTotal ==
    /\ execPc # "unresolved"
    /\ (execPc = "returned" /\ result.kind \in FailureKinds) => result.isError

(***************************************************************************)
(* SpecBash: bash calls only, one after the other.                         *)
(***************************************************************************)
MaxBashCalls == 3

ExecuteBash(args) ==
    /\ execCalls < MaxBashCalls
    /\ ExecuteCall(BASH, args)

BashNext ==
    \/ \E args \in ArgsOf(BASH) : ExecuteBash(args)
    \/ \E o \in ChildOutcomes : ChildExit(o)

SpecBash == ExecInit /\ [][BashNext]_vars

\* the denylist of the executor that runs
Denylist(ex) == IF ex = "ToolExecutor" THEN blocklist ELSE BLOCKED_COMMANDS

\* C11: bash with a command text that contains a denylisted substring
\* returns isError: true, and no child process is started for the call.
C11_DenylistBeforeExecution ==
    (call.tool = BASH /\ \E b \in Denylist(executor) : Includes(call.args.command, b)) =>
        /\ execPc = "returned"
        /\ result.isError
        /\ spawned = 0

C11_Witness ==
    /\ call.tool = BASH
    /\ call.args.command \notin Denylist(executor)
    /\ \E b \in Denylist(executor) : Includes(call.args.command, b)
    /\ execPc = "returned"
    /\ result.kind = "blocked"

(***************************************************************************)
(* SpecEdit: one existing file inside the vault, one edit call            *)
(* (old_string, new_string) applied to it again and again.                 *)
(***************************************************************************)
EditInit ==
    /\ UiUnused
    /\ executor \in Executors
    /\ fileContent \in StringsUpTo(EditAlphabet, MaxContentLen)
    /\ editArgs \in [old_string : StringsUpTo(EditAlphabet, MaxArgLen),
                     new_string : StringsUpTo(EditAlphabet, MaxArgLen)]
    /\ editLog = <<>>
    /\ ExecUnused
    /\ AccUnused
    /\ LoopUnused

EditCall ==
    /\ Len(editLog) < MaxEditCalls
    /\ LET out == editFile(executor, fileContent, editArgs.old_string, editArgs.new_string)
       IN /\ fileContent' = out.content
          /\ editLog' = Append(editLog, [before |-> fileContent,
                                         result |-> out.result,
                                         after |-> out.content])
    /\ UNCHANGED <<executor, editArgs, execVars, accVars, loopVars, credVars, wireVars, uiVars>>

EditNext == EditCall

SpecEdit == EditInit /\ [][EditNext]_vars

(***************************************************************************)
(* What the claims about edit speak of.                                    *)
(***************************************************************************)
\* the positions at which p occurs in s, overlapping occurrences included
OccurrencePositions(s, p) ==
    {i \in 1..(Len(s) - Len(p) + 1) : SubSeq(s, i, i + Len(p) - 1) = p}

TrueCount(s, p) == Cardinality(OccurrencePositions(s, p))

\* C8: edit replaces only when old_string occurs exactly once; zero
\* occurrences give the 'not found' error, n > 1 occurrences (overlapping
\* ones included) give a different error that reports n, and in both error
\* cases the file is unchanged.  Stated for a non-empty old_string, whose
\* occurrences are the positions at which it matches.
C8_EditExactlyOnce ==
    \A k \in 1..Len(editLog) :
        LET e == editLog[k]
            n == TrueCount(e.before, editArgs.old_string)
        IN editArgs.old_string # <<>> =>
           /\ n = 0 => e.result.isError /\ e.result.kind = "not_found" /\ e.after = e.before
           /\ n > 1 => e.result.isError /\ e.result.kind = "not_unique"
                       /\ e.result.n = n /\ e.after = e.before
           /\ ~e.result.isError => n = 1

\* C9: with old_string occurring exactly once, a successful edit leaves
\* prefix + new_string + suffix, new_string taken literally whatever it
\* contains.  Stated for a non-empty old_string.
C9_EditLiteral ==
    \A k \in 1..Len(editLog) :
        LET e == editLog[k]
            pos == OccurrencePositions(e.before, editArgs.old_string)
        IN (editArgs.old_string # <<>> /\ Cardinality(pos) = 1 /\ ~e.result.isError) =>
              LET i == CHOOSE j \in pos : TRUE
              IN e.after = SubSeq(e.before, 1, i - 1) \o editArgs.new_string
                           \o SubSeq(e.before, i + Len(editArgs.old_string), Len(e.before))

\* C10 (as stated): after a successful edit, the same call again returns
\* 'not found' and leaves the file unchanged, for every pair of strings.
\* Stated for a non-empty old_string and a new_string without '$', the
\* pairs for which replace() inserts new_string as it is.
C10_SecondEditNotFound ==
    \A k \in 1..(Len(editLog) - 1) :
        (/\ editArgs.old_string # <<>>
         /\ ~Includes(editArgs.new_string, <<"$">>)
         /\ ~editLog[k].result.isError) =>
            /\ editLog[k + 1].result.isError
            /\ editLog[k + 1].result.kind = "not_found"
            /\ editLog[k + 1].after = editLog[k + 1].before

\* C10 (amended): after a successful edit that leaves no occurrence of
\* old_string in the file, the same call again returns 'not found' and
\* leaves the file unchanged.
C10_SecondEditNotFoundWhenGone ==
    \A k \in 1..(Len(editLog) - 1) :
        (~editLog[k].result.isError
         /\ TrueCount(editLog[k].after, editArgs.old_string) = 0) =>
            /\ editLog[k + 1].result.isError
            /\ editLog[k + 1].result.kind = "not_found"
            /\ editLog[k + 1].after = editLog[k + 1].before

C10_Witness ==
    /\ Len(editLog) >= 2
    /\ ~editLog[1].result.isError
    /\ editArgs.old_string # <<>>
    /\ editArgs.new_string # <<>>
    /\ TrueCount(editLog[1].after, editArgs.old_string) = 0
    /\ editLog[2].result.kind = "not_found"

(***************************************************************************)
(* SpecAcc: one round fed an arbitrary stream of chunks.                   *)
(***************************************************************************)
MaxFrags == 3

AccInit ==
    /\ UiUnused
    /\ impl \in Impls
    /\ fullText = <<>>
    /\ toolCalls = <<>>
    /\ now = 0
    /\ accPc = "streaming"
    /\ roundToolCalls = <<>>
    /\ sentArgs = [i \in Indices |-> <<>>]
    /\ sentNames = [i \in Indices |-> <<>>]
    /\ nFrags = 0
    /\ executor = "ToolExecutor"
    /\ ExecUnused
    /\ EditUnused
    /\ LoopUnused

\* a chunk's delta carrying text
AccTextChunk(content) ==
    /\ accPc = "streaming"
    /\ Len(fullText) < 1
    /\ fullText' = fullText \o content
    /\ UNCHANGED <<impl, toolCalls, now, accPc, roundToolCalls, sentArgs, sentNames, nFrags,
                   executor, execVars, editVars, loopVars, credVars, wireVars, uiVars>>

\* a chunk's delta carrying one tool-call fragment
AccToolChunk(tc) ==
    /\ accPc = "streaming"
    /\ nFrags < MaxFrags
    /\ toolCalls' = AccumulateFragment(impl, toolCalls, tc, now).map
    /\ sentArgs' = IF tc.arguments = <<>> THEN sentArgs
                   ELSE [sentArgs EXCEPT ![tc.index] = Append(@, tc.arguments)]
    /\ sentNames' = IF tc.name = <<>> THEN sentNames
                    ELSE [sentNames EXCEPT ![tc.index] = Append(@, tc.name)]
    /\ nFrags' = nFrags + 1
    /\ UNCHANGED <<impl, fullText, now, accPc, roundToolCalls, executor, execVars, editVars, loopVars, credVars, wireVars, uiVars>>

\* the stream ends: the round's tool-call list is built
AccFinish ==
    /\ accPc = "streaming"
    /\ accPc' = "finished"
    /\ roundToolCalls' = FinishedToolCalls(impl, toolCalls)
    /\ UNCHANGED <<impl, fullText, toolCalls, now, sentArgs, sentNames, nFrags,
                   executor, execVars, editVars, loopVars, credVars, wireVars, uiVars>>

streamOneRound_catch_toolCalls_Accumulated(m) == SortByIndex(m)

\* the toolCalls of the results the catch of streamOneRound returns
streamOneRound_catch_toolCalls(m) == <<>>

\* the stream of a round of CopilotService throws; signalAborted tells what
\* this.abortController?.signal.aborted is in the catch
AccThrow(signalAborted) ==
    /\ impl = "CopilotService"
    /\ accPc = "streaming"
    /\ accPc' = IF signalAborted THEN "aborted" ELSE "failed"
    /\ roundToolCalls' = streamOneRound_catch_toolCalls(toolCalls)
    /\ UNCHANGED <<impl, fullText, toolCalls, now, sentArgs, sentNames, nFrags,
                   executor, execVars, editVars, loopVars, credVars, wireVars, uiVars>>

AccNext ==
    \/ \E content \in TextPieces : AccTextChunk(content)
    \/ \E tc \in Fragments : AccToolChunk(tc)
    \/ AccFinish
    \/ \E signalAborted \in BOOLEAN : AccThrow(signalAborted)

SpecAcc == AccInit /\ [][AccNext]_vars

(***************************************************************************)
(* What the claims about the accumulator speak of.                         *)
(***************************************************************************)
\* the indices some fragment was delivered for
TouchedIndices == {m \in Indices : MapHas(toolCalls, m)}

\* the finished list has exactly one descriptor for each index a fragment
\* was delivered for
OnePerIndex ==
    /\ {roundToolCalls[k].index : k \in 1..Len(roundToolCalls)} = TouchedIndices
    /\ Len(roundToolCalls) = Cardinality(TouchedIndices)

\* C4 (as stated): however the name and the arguments string of each call
\* are split into fragments, the finished descriptor of each index has the
\* whole name and the whole arguments string (the concatenation of the
\* fragments).
C4_ChunkingInvariance ==
    (accPc = "finished" /\ nFrags > 0) =>
        /\ OnePerIndex
        /\ \A k \in 1..Len(roundToolCalls) :
              LET d == roundToolCalls[k]
              IN /\ d.arguments = Flatten(sentArgs[d.index])
                 /\ d.name = Flatten(sentNames[d.index])

\* C4 (amended): however the arguments string of each call is split into
\* fragments, with the name delivered whole in one fragment of the index,
\* the finished descriptor of each index has that name and the whole
\* arguments string.
C4_ChunkingInvarianceWholeName ==
    (accPc = "finished" /\ nFrags > 0) =>
        /\ OnePerIndex
        /\ \A k \in 1..Len(roundToolCalls) :
              LET d == roundToolCalls[k]
              IN /\ d.arguments = Flatten(sentArgs[d.index])
                 /\ Len(sentNames[d.index]) <= 1 => d.name = Flatten(sentNames[d.index])

C4_Witness ==
    /\ accPc = "finished"
    /\ Len(roundToolCalls) = 2
    /\ \E k \in 1..2 :
          /\ Len(sentArgs[roundToolCalls[k].index]) = 2
          /\ sentArgs[roundToolCalls[k].index][1] # sentArgs[roundToolCalls[k].index][2]
          /\ Len(sentNames[roundToolCalls[k].index]) = 1

\* C5: the tool calls of a finished round are listed in ascending
\* positional index, whatever order the fragments arrived in, in
\* AgentLoop.processRound and in CopilotService.streamOneRound.
C5_AscendingIndex ==
    accPc = "finished" =>
        \A k, l \in 1..Len(roundToolCalls) :
            k < l => roundToolCalls[k].index < roundToolCalls[l].index

(***************************************************************************)
(* Spec: one send of AgentLoop, or one query of CopilotService, against    *)
(* an API that answers as the script says.                                 *)
(***************************************************************************)
MAX_TOOL_ROUNDS == 25

\* a slip: the cap tested inclusively
WithinRoundCap_Inclusive(r) == r <= MAX_TOOL_ROUNDS

\* while (rounds < MAX_TOOL_ROUNDS) / for (...; round < MAX_TOOL_ROUNDS; ...)
WithinRoundCap(r) == r < MAX_TOOL_ROUNDS

ChatMessage(role, content, tool_calls, tool_call_id) ==
    [role |-> role, content |-> content, tool_calls |-> tool_calls,
     tool_call_id |-> tool_call_id]

SystemMessage == ChatMessage("system", <<"SYSTEM_PROMPT">>, <<>>, Absent)
UserMessage == ChatMessage("user", <<"u">>, <<>>, Absent)

\* the scripts: the first toolRounds rounds answer with tool calls (of the
\* shape toolKind: one call, two with the higher index first, two of which
\* one has garbled arguments, two without ids, one whose id comes in its
\* second fragment), the next with the final
\* answer; the request of round
\* failAt may fail (failKind: the request, the stream after its first chunk,
\* or that with the model answering the repeated request otherwise than it
\* had begun to, by text instead of a tool call); the first exchange at the token endpoint and
\* the tools may fail; the user sends `sends` messages, starts out with the
\* secret `pat`, and keeps it or changes it in the settings; the clock
\* advances `ticks` times
Scripts ==
    {s \in [toolRounds : {0, 1, 2, MAX_TOOL_ROUNDS - 1, MAX_TOOL_ROUNDS},
            toolKind : {"one", "two_rev", "bad_args", "no_ids", "late_id"},
            finalKind : {"text", "empty"},
            failKind : {"none", "request", "midstream", "midstream_other"},
            failAt : 1..2,
            fallbackOk : BOOLEAN,
            tokenOk : BOOLEAN,
            toolFails : BOOLEAN,
            sends : 1..MaxSends,
            ticks : {0, MaxTicks},
            secret : {"keep", "change"},
            pat : {NoPat, P1}] :
        /\ s.failKind = "none" => s.failAt = 1 /\ s.fallbackOk
        /\ s.failKind # "none" => s.toolRounds <= 1
        /\ ~s.tokenOk => s.toolRounds = 0 /\ s.failKind = "none" /\ s.finalKind = "text"
        /\ s.toolRounds = 0 => ~s.toolFails /\ s.toolKind = "one"
        /\ s.toolRounds >= MAX_TOOL_ROUNDS - 1 => s.finalKind = "text"
        /\ (s.sends > 1 \/ s.ticks > 0 \/ s.secret = "change" \/ s.pat = NoPat) =>
               /\ s.toolRounds <= 1 /\ s.toolKind = "one" /\ s.failKind = "none"
               /\ s.finalKind = "text" /\ ~s.toolFails
        /\ s.pat = NoPat => s.tokenOk
        /\ s.failKind = "midstream_other" =>
               /\ s.toolRounds = 1 /\ s.toolKind = "one" /\ s.failAt = 1
               /\ s.fallbackOk /\ ~s.toolFails /\ s.finalKind = "text"
        /\ s.toolKind \in {"no_ids", "late_id"} => s.toolRounds \in {1, 2}}

WireId(r, index) == <<"call_", ToString(r), "_", ToString(index)>>

Fragment(index, id, name, arguments) ==
    [index |-> index, id |-> id, name |-> name, arguments |-> arguments]

\* a parsed SSE chunk: choices[0].delta.content and .tool_calls; choices is
\* FALSE for a JSON line that has no choices array
Chunk(content, tool_calls) == [choices |-> TRUE, content |-> content, tool_calls |-> tool_calls]
NoChoices == [choices |-> FALSE, content |-> <<>>, tool_calls |-> <<>>]

ToolRoundChunks(kind, r) ==
    IF kind = "one"
    THEN <<Chunk(<<>>, <<Fragment(0, WireId(r, 0), <<LS>>, <<>>)>>),
           Chunk(<<>>, <<Fragment(0, Absent, <<>>, <<"{">>)>>),
           Chunk(<<>>, <<Fragment(0, Absent, <<>>, <<"}">>)>>)>>
    ELSE IF kind = "two_rev"
    THEN <<Chunk(<<>>, <<Fragment(1, WireId(r, 1), <<LS>>, <<"{", "}">>)>>),
           Chunk(<<>>, <<Fragment(0, WireId(r, 0), <<READ>>, <<"{", "}">>)>>)>>
    ELSE IF kind = "no_ids"
    THEN <<Chunk(<<>>, <<Fragment(0, Absent, <<LS>>, <<"{", "}">>)>>),
           Chunk(<<>>, <<Fragment(1, Absent, <<READ>>, <<"{", "}">>)>>)>>
    ELSE IF kind = "late_id"
    THEN <<Chunk(<<>>, <<Fragment(0, Absent, <<LS>>, <<"{">>)>>),
           Chunk(<<>>, <<Fragment(0, WireId(r, 0), <<>>, <<"}">>)>>)>>
    ELSE <<Chunk(<<>>, <<Fragment(0, WireId(r, 0), <<LS>>, <<"{", "\"path\":\".\"", "}">>)>>),
           Chunk(<<>>, <<Fragment(1, WireId(r, 1), <<LS>>, <<"{", "\"path\":">>)>>)>>

FinalChunks(kind) ==
    IF kind = "text" THEN <<Chunk(<<"h">>, <<>>), Chunk(<<"i">>, <<>>)>> ELSE <<>>

RequestFails(s, r) == s.failKind = "request" /\ s.failAt = r

\* the chunks the streamed answer of round r delivers
Chunks(s, r) ==
    LET base == IF r <= s.toolRounds THEN ToolRoundChunks(s.toolKind, r)
                ELSE FinalChunks(s.finalKind)
    IN IF s.failKind \in {"midstream", "midstream_other"} /\ s.failAt = r
       THEN IF base = <<>> THEN <<NoChoices>>
            ELSE <<Head(base), NoChoices>> \o Tail(base)
       ELSE base

\* choice.message of the non-streamed answer of round r
WholeAnswer(s, r) ==
    IF s.failKind = "midstream_other" /\ s.failAt = r
    THEN [content |-> <<"h", "i">>, tool_calls |-> <<>>]
    ELSE IF r <= s.toolRounds
    THEN [content |-> Null,
          tool_calls |->
              IF s.toolKind \in {"one", "late_id"}
              THEN <<Fragment(0, WireId(r, 0), <<LS>>, <<"{", "}">>)>>
              ELSE IF s.toolKind \in {"two_rev", "no_ids"}
              THEN <<Fragment(0, WireId(r, 0), <<READ>>, <<"{", "}">>),
                     Fragment(1, WireId(r, 1), <<LS>>, <<"{", "}">>)>>
              ELSE <<Fragment(0, WireId(r, 0), <<LS>>, <<"{", "\"path\":\".\"", "}">>),
                     Fragment(1, WireId(r, 1), <<LS>>, <<"{", "\"path\":">>)>>]
    ELSE [content |-> IF s.finalKind = "text" THEN <<"h", "i">> ELSE <<>>,
          tool_calls |-> <<>>]

\* what executor.execute answers
ExecuteAnswer(s) ==
    IF s.toolFails THEN [content |-> <<"Error">>, isError |-> TRUE]
    ELSE [content |-> <<"ok">>, isError |-> FALSE]

\* the variables no step of a send changes
loopFrame0 == <<executor, editVars, execVars, now, accPc, sentArgs, sentNames, nFrags,
                impl, script, wireVars, uiVars>>
\* and those only the steps that handle credentials change
loopFrame == <<loopFrame0, credVars>>
cancelVars == <<aborted, cancelled, cancelPc, eventsAtCancel>>

LoopInit ==
    /\ UiUnused
    /\ impl \in Impls
    /\ script \in Scripts
    /\ pc = "idle"
    /\ settingsPat = IF impl = "AgentLoop" THEN script.pat ELSE NoPat
    /\ agentLoop = IF impl = "AgentLoop" /\ script.pat # NoPat THEN "live" ELSE "null"
    /\ pat = script.pat
    /\ token = NoToken
    /\ bearer = Null
    /\ exchPat = NoPat
    /\ exchanges = 0
    /\ sendNo = 0
    /\ messages = IF agentLoop = "live" THEN <<SystemMessage>> ELSE <<>>
    /\ rounds = 0
    /\ requests = 0
    /\ events = <<>>
    /\ chunkPos = 0
    /\ execIdx = 0
    /\ results = <<>>
    /\ abortController = "null"
    /\ aborted = FALSE
    /\ roundSignal = "none"
    /\ cancelled = FALSE
    /\ cancelPc = "idle"
    /\ eventsAtCancel = 0
    /\ lenAtRoundStart = 0
    /\ fullText = <<>>
    /\ toolCalls = <<>>
    /\ roundToolCalls = <<>>
    /\ now = 0
    /\ accPc = "finished"
    /\ sentArgs = [i \in Indices |-> <<>>]
    /\ sentNames = [i \in Indices |-> <<>>]
    /\ nFrags = 0
    /\ executor = IF impl = "AgentLoop" THEN "ToolExecutor" ELSE "CopilotToolExecutor"
    /\ ExecUnused
    /\ EditUnused
    /\ WireUnused

\* the send is over with history msgs and events evs
Return(msgs, evs) ==
    /\ pc' = "done"
    /\ messages' = msgs
    /\ events' = evs
    /\ UNCHANGED <<rounds, requests, chunkPos, execIdx, results, roundSignal,
                   lenAtRoundStart, fullText, toolCalls, roundToolCalls>>

\* a round begins after r rounds and q requests, with the signal sig: fresh
\* accumulators, the streaming request is issued
StartRoundAt(r, q, sig, msgs, evs) ==
    /\ pc' = "request"
    /\ rounds' = r + 1
    /\ requests' = q + 1
    /\ fullText' = <<>>
    /\ toolCalls' = <<>>
    /\ chunkPos' = 0
    /\ lenAtRoundStart' = Len(msgs)
    /\ roundSignal' = sig
    /\ messages' = msgs
    /\ events' = evs
    /\ UNCHANGED <<execIdx, results, roundToolCalls>>

StartRound(msgs, evs) == StartRoundAt(rounds, requests, abortController, msgs, evs)

\* the send awaits the token endpoint, asked with the secret p
StartExchange(p, msgs) ==
    /\ pc' = "token"
    /\ exchPat' = p
    /\ exchanges' = exchanges + 1
    /\ rounds' = 0
    /\ requests' = 0
    /\ messages' = msgs
    /\ events' = <<>>
    /\ UNCHANGED <<chunkPos, execIdx, results, roundSignal, lenAtRoundStart,
                   fullText, toolCalls, roundToolCalls>>

\* fetchCopilotToken: the endpoint refuses the empty secret, and its first
\* exchange fails when the script says so
ExchangeOk == exchPat # NoPat /\ (script.tokenOk \/ exchanges > 1)
\* { token: data.token, expiresAt: data.expires_at }
fetchCopilotToken == CopilotToken(exchPat, (now \div 1000) + TokenLifetime)

\* the user may send: the first message, or the next when the last is over
MaySend == pc = "idle" \/ (pc = "done" /\ sendNo < script.sends)

\* what every send resets in the model's record of the send
NewSend ==
    /\ sendNo' = sendNo + 1
    /\ cancelled' = FALSE
    /\ cancelPc' = "idle"
    /\ eventsAtCancel' = 0

\* the first tool call of the list tcs is handed to the executor
StartTools(msgs, evs, tcs) ==
    /\ pc' = "exec"
    /\ execIdx' = 1
    /\ results' = <<>>
    /\ roundToolCalls' = tcs
    /\ messages' = msgs
    /\ events' = evs
    /\ UNCHANGED <<rounds, requests, chunkPos, roundSignal, lenAtRoundStart,
                   fullText, toolCalls>>

(***************************************************************************)
(* AgentLoop.send.                                                         *)
(***************************************************************************)
MaxRoundsNotice == Event("text-delta", Absent, <<"Reached maximum tool use rounds">>, FALSE)
DoneEvent == Event("done", Absent, <<>>, FALSE)
ErrorEvent(message) == Event("error", Absent, message, TRUE)

\* Map.set(index, entry): an existing key keeps its place
MapSet(m, entry) ==
    IF MapHas(m, entry.index) THEN [m EXCEPT ![MapPos(m, entry.index)] = entry]
    ELSE Append(m, entry)

\* a slip: the catch of send reports nothing
AgentLoop_sendCatch_Silent(message) == Return(messages, events)

\* catch of send: callbacks.onError unless the signal is aborted
AgentLoop_sendCatch(message) ==
    Return(messages, IF aborted THEN events ELSE Append(events, ErrorEvent(message)))

\* the head of the while loop of send, reached with history msgs
AgentLoop_loopHead(msgs, evs) ==
    IF WithinRoundCap(rounds)
    THEN IF aborted THEN Return(msgs, evs) ELSE StartRound(msgs, evs)
    ELSE Return(msgs, evs \o <<MaxRoundsNotice, DoneEvent>>)

\* a slip: the assistant message of a round without tool calls is not recorded
AgentLoop_roundEnd_Unrecorded(text, m, evs) ==
    LET evs1 == IF text # <<>> THEN Append(evs, Event("text-done", Absent, text, FALSE))
                ELSE evs
        tcs == processRound_toolCalls(m)
        msgs == Append(messages, ChatMessage("assistant", IF text # <<>> THEN text ELSE Null,
                                             tcs, Absent))
    IN IF tcs = <<>> THEN Return(messages, Append(evs1, DoneEvent))
       ELSE IF aborted THEN Return(msgs, evs1)
       ELSE StartTools(msgs, evs1, tcs)

\* processRound from the end of its try/catch, and send up to its next
\* suspension: onTextDone, the assistant message, onDone or the first tool
\* a slip: the empty text is recorded as it is
AgentLoop_roundEnd_EmptyContent(text, m, evs) ==
    LET evs1 == IF text # <<>> THEN Append(evs, Event("text-done", Absent, text, FALSE))
                ELSE evs
        tcs == processRound_toolCalls(m)
        assistantMsg == ChatMessage("assistant", text, tcs, Absent)
        msgs == Append(messages, assistantMsg)
    IN IF tcs = <<>> THEN Return(msgs, Append(evs1, DoneEvent))
       ELSE IF aborted THEN Return(msgs, evs1)
       ELSE StartTools(msgs, evs1, tcs)

AgentLoop_roundEnd(text, m, evs) ==
    LET evs1 == IF text # <<>> THEN Append(evs, Event("text-done", Absent, text, FALSE))
                ELSE evs
        tcs == processRound_toolCalls(m)
        assistantMsg == ChatMessage("assistant", IF text # <<>> THEN text ELSE Null,
                                    tcs, Absent)
        msgs == Append(messages, assistantMsg)
    IN IF tcs = <<>> THEN Return(msgs, Append(evs1, DoneEvent))
       ELSE IF aborted THEN Return(msgs, evs1)
       ELSE StartTools(msgs, evs1, tcs)

\* ensureAgentLoop of ChatView: the loop handleSend sends on, a new one with
\* the secret of the settings when there is none
ChatView_ensureAgentLoop ==
    IF agentLoop = "live"
    THEN [ok |-> TRUE, pat |-> pat, token |-> token, messages |-> messages]
    ELSE IF settingsPat = NoPat
    THEN [ok |-> FALSE, pat |-> pat, token |-> token, messages |-> messages]
    ELSE [ok |-> TRUE, pat |-> settingsPat, token |-> NoToken, messages |-> <<SystemMessage>>]

\* handleSend of ChatView and AgentLoop.send up to its first suspension:
\* ensureAgentLoop (whose throw handleSend shows as an error), the new
\* controller, the user message, ensureToken
AgentLoop_send ==
    /\ impl = "AgentLoop"
    /\ MaySend
    /\ NewSend
    /\ LET loop == ChatView_ensureAgentLoop
           msgs == Append(loop.messages, UserMessage)
       IN IF ~loop.ok
          THEN /\ pc' = "done"
               /\ events' = <<ErrorEvent(<<"Not authenticated">>)>>
               /\ rounds' = 0
               /\ requests' = 0
               /\ bearer' = Null
               /\ UNCHANGED <<messages, abortController, aborted, agentLoop, pat, token,
                              exchPat, exchanges, chunkPos, execIdx, results,
                              roundSignal, lenAtRoundStart, fullText, toolCalls,
                              roundToolCalls>>
          ELSE /\ agentLoop' = "live"
               /\ pat' = loop.pat
               /\ token' = loop.token
               /\ abortController' = "live"
               /\ aborted' = FALSE
               /\ IF NeedsExchange(loop.token)
                  THEN /\ StartExchange(loop.pat, msgs)
                       /\ bearer' = Null
                  ELSE /\ bearer' = loop.token.token
                       /\ StartRoundAt(0, 0, "live", msgs, <<>>)
                       /\ UNCHANGED <<exchPat, exchanges>>
    /\ UNCHANGED <<settingsPat, loopFrame0>>

AgentLoop_cancel ==
    /\ impl = "AgentLoop"
    /\ pc \notin {"idle", "done"}
    /\ ~cancelled
    /\ aborted' = (abortController = "live")
    /\ cancelled' = TRUE
    /\ cancelPc' = pc
    /\ eventsAtCancel' = Len(events)
    /\ UNCHANGED <<pc, messages, rounds, requests, events, chunkPos, execIdx, results,
                   abortController, roundSignal, lenAtRoundStart,
                   fullText, toolCalls, roundToolCalls, loopFrame>>

\* fetchCopilotToken of ensureToken settles
AgentLoop_ensureToken ==
    /\ impl = "AgentLoop"
    /\ pc = "token"
    /\ IF ExchangeOk
       THEN /\ token' = fetchCopilotToken
            /\ bearer' = fetchCopilotToken.token
            /\ AgentLoop_loopHead(messages, events)
       ELSE /\ UNCHANGED <<token, bearer>>
            /\ AgentLoop_sendCatch(<<"Token fetch failed">>)
    /\ UNCHANGED <<abortController, cancelVars, loopFrame0, pat, exchPat, exchanges,
                   sendNo, settingsPat, agentLoop>>

\* requestUrl of streamChat settles
streamChat_requestUrl ==
    /\ impl = "AgentLoop"
    /\ pc = "request"
    /\ IF RequestFails(script, rounds)
       THEN /\ pc' = "fallback"
            /\ requests' = requests + 1
            /\ UNCHANGED <<messages, rounds, events, chunkPos, execIdx, results,
                           roundSignal, lenAtRoundStart, fullText, toolCalls,
                           roundToolCalls>>
       ELSE IF aborted
       THEN AgentLoop_roundEnd(fullText, toolCalls, events)
       ELSE /\ pc' = "stream"
            /\ UNCHANGED <<messages, rounds, requests, events, chunkPos, execIdx, results,
                           roundSignal, lenAtRoundStart, fullText, toolCalls,
                           roundToolCalls>>
    /\ UNCHANGED <<abortController, cancelVars, loopFrame>>

\* streamChat is resumed for the next line of the response
streamChat_nextLine ==
    /\ impl = "AgentLoop"
    /\ pc = "stream"
    /\ IF aborted \/ chunkPos = Len(Chunks(script, rounds))
       THEN AgentLoop_roundEnd(fullText, toolCalls, events)
       ELSE /\ pc' = "chunk"
            /\ UNCHANGED <<messages, rounds, requests, events, chunkPos, execIdx, results,
                           roundSignal, lenAtRoundStart, fullText, toolCalls,
                           roundToolCalls>>
    /\ UNCHANGED <<abortController, cancelVars, loopFrame>>

\* the body of the for await of processRound, for the chunk yielded
AgentLoop_processRound_chunk ==
    /\ impl = "AgentLoop"
    /\ pc = "chunk"
    /\ LET chunk == Chunks(script, rounds)[chunkPos + 1]
           acc == AccumulateFragments(impl, toolCalls, chunk.tool_calls, now)
       IN IF aborted THEN Return(messages, events)
          ELSE IF ~chunk.choices
          THEN /\ pc' = "fallback"
               /\ requests' = requests + 1
               /\ UNCHANGED <<messages, rounds, events, chunkPos, execIdx, results,
                              roundSignal, lenAtRoundStart, fullText, toolCalls,
                              roundToolCalls>>
          ELSE /\ pc' = "stream"
               /\ chunkPos' = chunkPos + 1
               /\ fullText' = fullText \o chunk.content
               /\ toolCalls' = acc.map
               /\ events' = events
                     \o (IF chunk.content # <<>>
                         THEN <<Event("text-delta", Absent, chunk.content, FALSE)>>
                         ELSE <<>>)
                     \o acc.events
               /\ UNCHANGED <<messages, rounds, requests, execIdx, results, roundSignal,
                              lenAtRoundStart, roundToolCalls>>
    /\ UNCHANGED <<abortController, cancelVars, loopFrame>>

\* the callbacks of the catch of processRound for response.tool_calls
RECURSIVE FallbackToolCalls(_, _)
FallbackToolCalls(m, tcs) ==
    IF tcs = <<>> THEN [map |-> m, events |-> <<>>]
    ELSE LET tc == Head(tcs)
             rest == FallbackToolCalls(MapSet(m, tc), Tail(tcs))
         IN [map |-> rest.map,
             events |-> <<Event("tool-start", tc.id, tc.name, FALSE),
                          Event("tool-input-progress", tc.id, tc.arguments, FALSE)>>
                        \o rest.events]

forOf_FromTheEnd(list, i) == list[Len(list) + 1 - i]

\* the element a for-of loop over list visits in its i-th turn
forOf(list, i) == list[i]

\* sendChat of the catch of processRound settles
AgentLoop_processRound_sendChat ==
    /\ impl = "AgentLoop"
    /\ pc = "fallback"
    /\ IF ~script.fallbackOk THEN AgentLoop_sendCatch(<<"Request failed">>)
       ELSE LET response == WholeAnswer(script, rounds)
                hasText == response.content # Null /\ response.content # <<>>
                text == IF hasText THEN response.content ELSE fullText
                evs1 == IF hasText
                        THEN Append(events, Event("text-delta", Absent, text, FALSE))
                        ELSE events
                acc == FallbackToolCalls(toolCalls, response.tool_calls)
            IN AgentLoop_roundEnd(text, acc.map, evs1 \o acc.events)
    /\ UNCHANGED <<abortController, cancelVars, loopFrame>>

\* executor.execute settles for the tool call at execIdx
AgentLoop_executeToolCalls ==
    /\ impl = "AgentLoop"
    /\ pc = "exec"
    /\ LET tc == forOf(roundToolCalls, execIdx)
           answer == ExecuteAnswer(script)
           evs == Append(events, ToolEvent("tool-result", tc.id, tc.name, answer.isError,
                                           ParseArguments(tc.arguments)))
           toolResults == Append(results, ChatMessage("tool", answer.content, <<>>, tc.id))
       IN IF execIdx < Len(roundToolCalls) /\ ~aborted
          THEN /\ execIdx' = execIdx + 1
               /\ results' = toolResults
               /\ events' = evs
               /\ UNCHANGED <<pc, messages, rounds, requests, chunkPos, roundSignal,
                              lenAtRoundStart, fullText, toolCalls, roundToolCalls>>
          ELSE IF aborted THEN Return(messages, evs)
          ELSE AgentLoop_loopHead(messages \o toolResults, evs)
    /\ UNCHANGED <<abortController, cancelVars, loopFrame>>

(***************************************************************************)
(* CopilotService.query.  Its history is the messages array of the query;  *)
(* an event is a chunk the generator yields.                               *)
(***************************************************************************)
\* the messages buildMessages returns for a query without earlier history
buildMessages == <<SystemMessage, UserMessage>>

\* finally of query
CopilotService_finally == abortController' = "null"

\* the fetch or the read of the round is rejected
StreamRejected == roundSignal = "live" /\ aborted

\* catch of streamOneRound with the error err, and query after it
\* a slip: the query goes on to its completion after reporting the error
CopilotService_streamOneRound_catch_ThenDone(message) ==
    /\ IF abortController = "live" /\ aborted THEN Return(messages, events)
       ELSE Return(messages, events \o <<ErrorEvent(message), DoneEvent>>)
    /\ CopilotService_finally

CopilotService_streamOneRound_catch(message) ==
    /\ IF abortController = "live" /\ aborted THEN Return(messages, events)
       ELSE Return(messages, Append(events, ErrorEvent(message)))
    /\ CopilotService_finally

\* query at the head of its for loop: the next round, or the error chunk
\* after the last
CopilotService_loopHead(msgs, evs) ==
    IF WithinRoundCap(rounds)
    THEN StartRound(msgs, evs) /\ UNCHANGED abortController
    ELSE /\ Return(msgs, Append(evs, ErrorEvent(<<"Max tool rounds exceeded">>)))
         /\ CopilotService_finally

\* query after the tool calls of a round: the refresh of a cached
\* credential that has expired, or on to the head of the loop
CopilotService_nextRound(msgs, evs) ==
    IF token # NoToken /\ isTokenExpired(token.expiresAt)
    THEN /\ pc' = "refresh"
         /\ exchPat' = pat
         /\ exchanges' = exchanges + 1
         /\ messages' = msgs
         /\ events' = evs
         /\ UNCHANGED <<rounds, requests, chunkPos, execIdx, results, roundSignal,
                        lenAtRoundStart, fullText, toolCalls, roundToolCalls,
                        abortController>>
    ELSE /\ CopilotService_loopHead(msgs, evs)
         /\ UNCHANGED <<exchPat, exchanges>>

\* streamOneRound from the end of its stream, and query up to its next
\* suspension: the done chunk, or the first tool_use chunk and its execute
CopilotService_roundEnd(text, m, evs) ==
    LET tcs == streamOneRound_toolCalls(m)
        msgs == Append(messages, ChatMessage("assistant",
                           IF text # <<>> THEN text ELSE Null, tcs, Absent))
    IN IF tcs = <<>> THEN Return(messages, Append(evs, DoneEvent)) /\ CopilotService_finally
       ELSE /\ StartTools(msgs,
                          Append(evs, ToolEvent("tool-start", tcs[1].id, tcs[1].name, FALSE,
                                                ParseArguments(tcs[1].arguments))),
                          tcs)
            /\ UNCHANGED abortController

\* query once it holds a credential: buildMessages, the new controller,
\* the first round
CopilotService_begin ==
    /\ abortController' = "live"
    /\ aborted' = FALSE
    /\ StartRoundAt(0, 0, "live", buildMessages, <<>>)

\* query up to its first suspension
CopilotService_query ==
    /\ impl = "CopilotService"
    /\ MaySend
    /\ NewSend
    /\ IF pat = NoPat
       THEN /\ pc' = "done"
            /\ events' = <<ErrorEvent(<<"Not authenticated with GitHub Copilot">>)>>
            /\ messages' = <<>>
            /\ rounds' = 0
            /\ requests' = 0
            /\ aborted' = FALSE
            /\ bearer' = Null
            /\ UNCHANGED <<abortController, exchPat, exchanges, chunkPos, execIdx,
                           results, roundSignal, lenAtRoundStart, fullText, toolCalls,
                           roundToolCalls>>
       ELSE IF NeedsExchange(token)
       THEN /\ StartExchange(pat, <<>>)
            /\ bearer' = Null
            /\ aborted' = FALSE
            /\ UNCHANGED abortController
       ELSE /\ bearer' = token.token
            /\ CopilotService_begin
            /\ UNCHANGED <<exchPat, exchanges>>
    /\ UNCHANGED <<pat, token, settingsPat, agentLoop, loopFrame0>>

CopilotService_cancel ==
    /\ impl = "CopilotService"
    /\ pc \notin {"idle", "done"}
    /\ ~cancelled
    /\ aborted' = (aborted \/ abortController = "live")
    /\ abortController' = "null"
    /\ cancelled' = TRUE
    /\ cancelPc' = pc
    /\ eventsAtCancel' = Len(events)
    /\ UNCHANGED <<pc, messages, rounds, requests, events, chunkPos, execIdx, results,
                   roundSignal, lenAtRoundStart, fullText, toolCalls, roundToolCalls,
                   loopFrame>>

\* fetchCopilotToken of ensureCopilotToken settles
CopilotService_ensureCopilotToken ==
    /\ impl = "CopilotService"
    /\ pc = "token"
    /\ IF ~ExchangeOk
       THEN /\ Return(messages, Append(events, ErrorEvent(<<"Copilot auth failed">>)))
            /\ UNCHANGED <<abortController, aborted, token, bearer>>
       ELSE /\ token' = fetchCopilotToken
            /\ bearer' = fetchCopilotToken.token
            /\ CopilotService_begin
    /\ UNCHANGED <<cancelled, cancelPc, eventsAtCancel, loopFrame0, pat, exchPat, exchanges,
                   sendNo, settingsPat, agentLoop>>

\* fetchCopilotToken of the refresh between two rounds settles
CopilotService_refresh ==
    /\ impl = "CopilotService"
    /\ pc = "refresh"
    /\ IF ~ExchangeOk
       THEN /\ IF abortController = "live" /\ aborted THEN Return(messages, events)
               ELSE Return(messages, Append(events, ErrorEvent(<<"Token fetch failed">>)))
            /\ CopilotService_finally
            /\ UNCHANGED <<token, bearer>>
       ELSE /\ token' = fetchCopilotToken
            /\ bearer' = fetchCopilotToken.token
            /\ CopilotService_loopHead(messages, events)
    /\ UNCHANGED <<cancelVars, loopFrame0, pat, exchPat, exchanges, sendNo, settingsPat,
                   agentLoop>>

\* fetch of streamChat settles
streamChat_fetch ==
    /\ impl = "CopilotService"
    /\ pc = "request"
    /\ IF StreamRejected
       THEN CopilotService_streamOneRound_catch(<<"The user aborted a request">>)
       ELSE IF RequestFails(script, rounds)
       THEN CopilotService_streamOneRound_catch(<<"Copilot API error">>)
       ELSE /\ pc' = "stream"
            /\ UNCHANGED <<messages, rounds, requests, events, chunkPos, execIdx, results,
                           roundSignal, lenAtRoundStart, fullText, toolCalls,
                           roundToolCalls, abortController>>
    /\ UNCHANGED <<cancelVars, loopFrame>>

\* reader.read() of streamChat settles, and streamOneRound handles the chunk
CopilotService_streamOneRound_chunk ==
    /\ impl = "CopilotService"
    /\ pc = "stream"
    /\ IF StreamRejected
       THEN CopilotService_streamOneRound_catch(<<"The user aborted a request">>)
       ELSE IF chunkPos = Len(Chunks(script, rounds))
       THEN CopilotService_roundEnd(fullText, toolCalls, events)
       ELSE LET chunk == Chunks(script, rounds)[chunkPos + 1]
                acc == AccumulateFragments(impl, toolCalls, chunk.tool_calls, now)
            IN /\ chunkPos' = chunkPos + 1
               /\ IF ~chunk.choices
                  THEN UNCHANGED <<fullText, toolCalls, events>>
                  ELSE /\ fullText' = fullText \o chunk.content
                       /\ toolCalls' = acc.map
                       /\ events' = IF chunk.content # <<>>
                                    THEN Append(events, Event("text-delta", Absent,
                                                              chunk.content, FALSE))
                                    ELSE events
               /\ UNCHANGED <<pc, messages, rounds, requests, execIdx, results, roundSignal,
                              lenAtRoundStart, roundToolCalls, abortController>>
    /\ UNCHANGED <<cancelVars, loopFrame>>

\* executor.execute settles for the tool call at execIdx
CopilotService_execute ==
    /\ impl = "CopilotService"
    /\ pc = "exec"
    /\ LET tc == forOf(roundToolCalls, execIdx)
           answer == ExecuteAnswer(script)
           evs == Append(events, Event("tool-result", tc.id, answer.content, answer.isError))
           msgs == Append(messages, ChatMessage("tool", answer.content, <<>>, tc.id))
       IN IF execIdx < Len(roundToolCalls)
          THEN LET next == forOf(roundToolCalls, execIdx + 1)
               IN /\ execIdx' = execIdx + 1
                  /\ messages' = msgs
                  /\ events' = Append(evs, ToolEvent("tool-start", next.id, next.name, FALSE,
                                                       ParseArguments(next.arguments)))
                  /\ UNCHANGED <<pc, rounds, requests, chunkPos, results, roundSignal,
                                 lenAtRoundStart, fullText, toolCalls, roundToolCalls,
                                 abortController, exchPat, exchanges>>
          ELSE CopilotService_nextRound(msgs, evs)
    /\ UNCHANGED <<cancelVars, loopFrame0, pat, token, bearer, sendNo, settingsPat,
                   agentLoop>>

\* updatePat
CopilotService_updatePat(p) ==
    /\ impl = "CopilotService"
    /\ script.secret = "change"
    /\ pat' = p
    /\ token' = NoToken
    /\ UNCHANGED <<loopVars, bearer, exchPat, exchanges, sendNo, settingsPat, agentLoop,
                   loopFrame0, fullText, toolCalls, roundToolCalls>>

\* the secret the user gets when authenticating anew
NewPat == IF script.pat = NoPat THEN P1 ELSE P2

\* the Sign out button of the settings tab
SettingsTab_signOut ==
    /\ impl = "AgentLoop"
    /\ script.secret = "change"
    /\ settingsPat # NoPat
    /\ settingsPat' = NoPat
    /\ UNCHANGED <<loopVars, pat, token, bearer, exchPat, exchanges, sendNo, agentLoop,
                   loopFrame0, fullText, toolCalls, roundToolCalls>>

\* startAuth of the settings tab, once pollForAccessToken has answered
SettingsTab_startAuth ==
    /\ impl = "AgentLoop"
    /\ script.secret = "change"
    /\ settingsPat = NoPat
    /\ settingsPat' = NewPat
    /\ UNCHANGED <<loopVars, pat, token, bearer, exchPat, exchanges, sendNo, agentLoop,
                   loopFrame0, fullText, toolCalls, roundToolCalls>>

\* newConversation of ChatView, between two sends: the loop is dropped
ChatView_newConversation ==
    /\ impl = "AgentLoop"
    /\ script.secret = "change"
    /\ pc \in {"idle", "done"}
    /\ agentLoop = "live"
    /\ agentLoop' = "null"
    /\ messages' = <<>>
    /\ pat' = NoPat
    /\ token' = NoToken
    /\ abortController' = "null"
    /\ aborted' = FALSE
    /\ UNCHANGED <<pc, rounds, requests, events, chunkPos, execIdx, results,
                   roundSignal, cancelled, cancelPc, eventsAtCancel, lenAtRoundStart,
                   bearer, exchPat, exchanges, sendNo, settingsPat,
                   loopFrame0, fullText, toolCalls, roundToolCalls>>

\* time passes; the clock is read when a send begins and between the rounds
\* of query, and the model advances it just before those reads
Tick ==
    /\ pc \in {"idle", "done", "exec"}
    /\ now < script.ticks * TickMs
    /\ now' = now + TickMs
    /\ UNCHANGED <<executor, editVars, execVars, impl, fullText, toolCalls, accPc,
                   roundToolCalls, sentArgs, sentNames, nFrags, loopVars, credVars,
                   wireVars, uiVars>>

Next ==
    \/ AgentLoop_send
    \/ AgentLoop_cancel
    \/ AgentLoop_ensureToken
    \/ streamChat_requestUrl
    \/ streamChat_nextLine
    \/ AgentLoop_processRound_chunk
    \/ AgentLoop_processRound_sendChat
    \/ AgentLoop_executeToolCalls
    \/ CopilotService_query
    \/ CopilotService_cancel
    \/ CopilotService_ensureCopilotToken
    \/ streamChat_fetch
    \/ CopilotService_streamOneRound_chunk
    \/ CopilotService_execute
    \/ CopilotService_refresh
    \/ \E p \in {NoPat, NewPat} : CopilotService_updatePat(p)
    \/ SettingsTab_signOut
    \/ SettingsTab_startAuth
    \/ ChatView_newConversation
    \/ Tick

Spec == LoopInit /\ [][Next]_vars

(***************************************************************************)
(* What the claims about the loop speak of.                                *)
(***************************************************************************)
EventTypes == [k \in 1..Len(events) |-> events[k].type]

\* C1: in AgentLoop, once cancel() is called while the chat request or the
\* stream of a round is in flight, no text-delta and no tool-result is
\* delivered afterwards for that send, and when the send has returned the
\* history is as long as it was when the cancelled round began.
C1_CancelMidStream ==
    (impl = "AgentLoop" /\ cancelled /\ cancelPc \in {"request", "stream", "chunk", "fallback"}) =>
        /\ \A k \in (eventsAtCancel + 1)..Len(events) :
              events[k].type \notin {"text-delta", "tool-result"}
        /\ pc = "done" => Len(messages) = lenAtRoundStart

\* the API answers every round with tool calls; nothing fails, nobody cancels
AlwaysTools ==
    /\ script.toolRounds >= MAX_TOOL_ROUNDS
    /\ script.failKind = "none"
    /\ script.tokenOk
    /\ ~cancelled

\* C2: against an API that answers every round with at least one tool call
\* (no cancel, no network error) a send, and a query, issues exactly 25
\* chat requests: it is not over before the 25th round and there is never
\* a 26th request.
C2_RoundCap ==
    AlwaysTools =>
        /\ requests <= MAX_TOOL_ROUNDS
        /\ rounds <= MAX_TOOL_ROUNDS
        /\ pc = "done" => requests = MAX_TOOL_ROUNDS /\ rounds = MAX_TOOL_ROUNDS

C2_Witness ==
    /\ AlwaysTools
    /\ pc = "done"
    /\ requests = MAX_TOOL_ROUNDS
    /\ Len(messages) > 2 * MAX_TOOL_ROUNDS

\* the first round answers with one tool call and no text, the tool
\* succeeds, the second round answers with text and no tool call
OneToolThenText ==
    /\ script.toolRounds = 1
    /\ script.toolKind = "one"
    /\ script.finalKind = "text"
    /\ script.failKind = "none"
    /\ script.tokenOk
    /\ ~script.toolFails
    /\ script.pat # NoPat
    /\ script.secret = "keep"
    /\ sendNo <= 1
    /\ ~cancelled

\* tool-start, tool-result, text-delta*, text-done, done
StartResultTextDone(types) ==
    /\ Len(types) >= 4
    /\ types[1] = "tool-start"
    /\ types[2] = "tool-result"
    /\ \A k \in 3..(Len(types) - 2) : types[k] = "text-delta"
    /\ types[Len(types) - 1] = "text-done"
    /\ types[Len(types)] = "done"

\* tool-start, tool-input-progress*, tool-result, text-delta*, text-done, done
StartProgressResultTextDone(types) ==
    \E r \in 2..(Len(types) - 2) :
        /\ types[1] = "tool-start"
        /\ \A k \in 2..(r - 1) : types[k] = "tool-input-progress"
        /\ types[r] = "tool-result"
        /\ \A k \in (r + 1)..(Len(types) - 2) : types[k] = "text-delta"
        /\ types[Len(types) - 1] = "text-done"
        /\ types[Len(types)] = "done"

\* tool-start, tool-result, text-delta*, done
StartResultTextEnd(types) ==
    /\ Len(types) >= 3
    /\ types[1] = "tool-start"
    /\ types[2] = "tool-result"
    /\ \A k \in 3..(Len(types) - 1) : types[k] = "text-delta"
    /\ types[Len(types)] = "done"

\* after the system and the user message: an assistant message with one
\* tool call, then a tool message (and that is where the history ends, or
\* goes on, as the caller of this says)
ToolExchangeAt3 ==
    /\ Len(messages) >= 4
    /\ messages[1].role = "system"
    /\ messages[2].role = "user"
    /\ messages[3].role = "assistant"
    /\ Len(messages[3].tool_calls) = 1
    /\ messages[4].role = "tool"
    /\ messages[4].tool_call_id = messages[3].tool_calls[1].id

\* ... then a second assistant message with text and no tool call
FinalAssistantAt5 ==
    /\ Len(messages) = 5
    /\ messages[5].role = "assistant"
    /\ messages[5].content = fullText
    /\ messages[5].content # <<>>
    /\ messages[5].tool_calls = <<>>

C12_CapNoticeThenDone ==
    (AlwaysTools /\ pc = "done") =>
        /\ Len(events) >= 2
        /\ events[Len(events) - 1].type = "text-delta"
        /\ events[Len(events)].type = "done"
        /\ \A k \in 1..Len(events) : events[k].type # "error"

\* C13: a send that has been cancelled never delivers done, whether cancel()
\* arrived while the chat request was awaited, between chunks, or during a
\* tool execution.
C13_NoDoneAfterCancel ==
    (cancelled /\ cancelPc \in {"request", "stream", "chunk", "exec"}) =>
        \A k \in (eventsAtCancel + 1)..Len(events) : events[k].type # "done"

\* C14: in CopilotService, when cancel() is called during a streaming
\* round, streamOneRound returns aborted: true and query yields no error
\* chunk for that send.
C14_CancelIsNotAnError ==
    (impl = "CopilotService" /\ cancelled /\ cancelPc \in {"request", "stream"}) =>
        \A k \in (eventsAtCancel + 1)..Len(events) : events[k].type # "error"

\* the chat request of round script.failAt has failed, and not by a cancel
RequestHasFailed ==
    /\ script.failKind = "request"
    /\ ~cancelled
    /\ rounds >= script.failAt
    /\ ~(rounds = script.failAt /\ pc = "request")

\* C15: a network failure of a round's request (not caused by cancel) is
\* delivered as exactly one error event, ends the send (no further round,
\* tool execution or event) and is not followed by a retry of the request.
C15_FailureEndsSend ==
    RequestHasFailed =>
        /\ pc = "done"
        /\ rounds = script.failAt
        /\ requests = rounds
        /\ events # <<>>
        /\ events[Len(events)].type = "error"
        /\ Cardinality({k \in 1..Len(events) : events[k].type = "error"}) = 1

\* the assistant messages of the history that carry tool calls
ToolRequests == {k \in 1..Len(messages) :
                    messages[k].role = "assistant" /\ messages[k].tool_calls # <<>>}

\* the tool calls of the assistant message at k are each followed, in
\* order, by one tool message with the executor's answer
ToolCallsAnswered(k) ==
    LET tcs == messages[k].tool_calls
    IN /\ k + Len(tcs) <= Len(messages)
       /\ \A j \in 1..Len(tcs) :
             /\ messages[k + j].role = "tool"
             /\ messages[k + j].tool_call_id = tcs[j].id
             /\ messages[k + j].content = ExecuteAnswer(script).content
       /\ k + Len(tcs) < Len(messages) => messages[k + Len(tcs) + 1].role # "tool"

\* the tool calls of the assistant message at k are being executed
BeingExecuted(k) == pc = "exec" /\ \A l \in ToolRequests : l <= k

\* the events that carry a parsed input carry the object the arguments
\* text of their tool call denotes, the empty object when it denotes none
InputsParsed ==
    \A e \in 1..Len(events) : \A k \in ToolRequests : \A j \in 1..Len(messages[k].tool_calls) :
        LET tc == messages[k].tool_calls[j]
        IN (events[e].input # Absent /\ events[e].id = tc.id) =>
              events[e].input = IF IsJSONObject(tc.arguments)
                                THEN SubSeq(tc.arguments, 2, Len(tc.arguments) - 1)
                                ELSE EmptyObject

CredentialFailed == pc = "done" /\ sendNo >= 1 /\ bearer = Null

OneErrorEvent == Len(events) = 1 /\ events[1].type = "error"

\* the send before this one ended without a credential, and this one holds one
FailedThenObtained ==
    /\ sendNo = 2
    /\ bearer # Null
    /\ \/ ~script.tokenOk /\ exchanges = 2
       \/ script.pat = NoPat /\ exchanges = 1

\* C17 as the spec states it: a send that cannot obtain the credential
\* emits exactly one error event and makes no chat request.
C17_AuthFailureOneError ==
    /\ bearer = Null => requests = 0
    /\ CredentialFailed => OneErrorEvent

\* C17: a send that cannot obtain the credential (no secret, or a failed
\* exchange) makes no chat request and emits exactly one error event, or,
\* in AgentLoop, none when the send was cancelled during the exchange; the
\* loop stays usable: a later send that obtains the credential, and is not
\* cancelled, issues its chat requests and ends with done.
C17_AuthFailureEndsSend ==
    /\ bearer = Null => requests = 0
    /\ CredentialFailed =>
          IF impl = "AgentLoop" /\ cancelled THEN events = <<>> ELSE OneErrorEvent
    /\ (FailedThenObtained /\ pc = "done" /\ ~cancelled) =>
          /\ requests >= 1
          /\ events # <<>>
          /\ events[Len(events)] = DoneEvent

C17_Witness ==
    /\ FailedThenObtained
    /\ ~script.tokenOk
    /\ pc = "done"
    /\ ~cancelled
    /\ requests >= 1
    /\ events[Len(events)] = DoneEvent

\* the step calls the token provider: a send begins on a loop that has a secret
ProviderCalled ==
    /\ sendNo' = sendNo + 1
    /\ IF impl = "AgentLoop" THEN ChatView_ensureAgentLoop.ok ELSE pat # NoPat

\* the cache the provider finds
CacheAtCall == IF impl = "AgentLoop" THEN ChatView_ensureAgentLoop.token ELSE token

\* nothing is cached, or the clock (in milliseconds) is at or past expiresAt
\* minus 300 seconds
Stale(tok) == tok = NoToken \/ now >= (tok.expiresAt - 300) * 1000

\* C18: the token provider makes an exchange request if and only if no
\* credential is cached or the time is at or past expiresAt minus 300
\* seconds; otherwise it returns the cached value, leaves the cache as it
\* is and makes no exchange request.
C18_RefreshIffStale ==
    [][ /\ ProviderCalled =>
             /\ (exchanges' = exchanges + 1) <=> Stale(CacheAtCall)
             /\ Stale(CacheAtCall) => pc' = "token" /\ exchPat' = pat'
             /\ ~Stale(CacheAtCall) =>
                   /\ token' = CacheAtCall
                   /\ bearer' = CacheAtCall.token
                   /\ exchanges' = exchanges
        /\ pc' = "refresh" /\ pc # "refresh" =>
             Stale(token) /\ exchanges' = exchanges + 1 ]_vars

\* a second send, after a first that was answered, was served from the
\* cache one tick before the buffer window of its credential opened
C18_Witness ==
    /\ impl = "AgentLoop"
    /\ script.pat = P1
    /\ script.secret = "keep"
    /\ Len(messages) >= 4
    /\ sendNo = 2
    /\ exchanges = 1
    /\ token # NoToken
    /\ now = (token.expiresAt - 300) * 1000 - TickMs
    /\ bearer = token.token
    /\ pc = "request"
    /\ rounds = 1

\* the long-lived secret as the user last set it
Secret == IF impl = "AgentLoop" THEN settingsPat ELSE pat

\* the step issues a chat request
ChatRequested == requests' > requests \/ (sendNo' > sendNo /\ requests' > 0)

\* C19: every chat request carries a bearer credential that was obtained
\* with the long-lived secret as it is when the request is made; none
\* carries one obtained with a secret the user has since replaced or removed.
C19_NoBearerOfOldSecret ==
    [][ChatRequested => bearer' = BearerOf(Secret')]_vars

(***************************************************************************)
(* SpecWire: one call of streamChat from the arrival of the response: the  *)
(* decoder of the wire stream.  A text is a sequence of tokens; the tokens *)
(* are the line feed, the blank, the field name with and without its       *)
(* blank, the sentinel and three payloads.                                 *)
(***************************************************************************)
MaxLines == 3

NL == "\n"
SP == " "
DATA == "data: "
DATA_NOSPACE == "data:"
DONE == "[DONE]"

\* the lines a response is made of
WireLines == {<<DATA, "{a}">>, <<DATA, "{b}">>, <<DATA, DONE>>, <<DATA, "{bad">>, <<>>,
              <<SP, DATA, "{a}", SP>>, <<DATA_NOSPACE, "{a}">>}

RECURSIVE JoinLines(_)
JoinLines(lines) ==
    IF lines = <<>> THEN <<>>
    ELSE IF Len(lines) = 1 THEN lines[1]
    ELSE lines[1] \o <<NL>> \o JoinLines(Tail(lines))

\* the response bodies: up to MaxLines lines, the last with or without its line feed
Bodies ==
    {JoinLines(wl) \o end : wl \in UNION {[1..n -> WireLines] : n \in 1..MaxLines},
                            end \in {<<>>, <<NL>>}}

\* the ways a body reaches reader.read(): whole, or in two pieces
Deliveries(body) ==
    {<<body>>} \cup {<<SubSeq(body, 1, c), SubSeq(body, c + 1, Len(body))>> :
                         c \in 1..(Len(body) - 1)}

\* String.prototype.split("\n")
RECURSIVE SplitLines(_)
SplitLines(text) ==
    IF \A i \in 1..Len(text) : text[i] # NL THEN <<text>>
    ELSE LET i == CHOOSE i \in 1..Len(text) :
                      text[i] = NL /\ \A j \in 1..(i - 1) : text[j] # NL
         IN <<SubSeq(text, 1, i - 1)>> \o SplitLines(SubSeq(text, i + 1, Len(text)))

\* String.prototype.trim
RECURSIVE Trim(_)
Trim(line) ==
    IF line = <<>> THEN <<>>
    ELSE IF Head(line) = SP THEN Trim(Tail(line))
    ELSE IF line[Len(line)] = SP THEN Trim(SubSeq(line, 1, Len(line) - 1))
    ELSE line

\* trimmed.startsWith("data: "), and trimmed.slice(6)
StartsWithData(trimmed) == trimmed # <<>> /\ Head(trimmed) = DATA
Slice6(trimmed) == Tail(trimmed)

\* JSON.parse of a payload does not throw
JSONParses(data) == data \in {<<"{a}">>, <<"{b}">>}

\* the line is the terminal sentinel record
IsSentinel(line) == Trim(line) = <<DATA, DONE>>

\* a slip: a payload that does not parse ends the stream
requestUrl_line_GarbledEnds(line) ==
    LET trimmed == Trim(line)
        data == Slice6(trimmed)
    IN IF ~StartsWithData(trimmed) THEN "skip"
       ELSE IF data = <<DONE>> THEN "return"
       ELSE IF JSONParses(data) THEN "yield"
       ELSE "return"

\* one iteration of the for loop of streamChat over resp.text (requestUrl):
\* "return", "yield" or "skip"
requestUrl_line(line) ==
    LET trimmed == Trim(line)
        data == Slice6(trimmed)
    IN IF ~StartsWithData(trimmed) THEN "skip"
       ELSE IF data = <<DONE>> THEN "return"
       ELSE IF JSONParses(data) THEN "yield"
       ELSE "skip"

\* one iteration of the for loop of streamChat over the lines of a read (fetch)
fetch_line(line) ==
    LET trimmed == Trim(line)
    IN IF trimmed = <<>> \/ trimmed = <<DATA, DONE>> THEN "skip"
       ELSE IF ~StartsWithData(trimmed) THEN "skip"
       ELSE IF JSONParses(Slice6(trimmed)) THEN "yield"
       ELSE "skip"

\* the for loop of the fetch decoder over the complete lines of a read:
\* the chunks yielded so far, and where the sentinel was read
RECURSIVE fetch_lines(_, _, _)
fetch_lines(lines, out, at) ==
    IF lines = <<>> THEN [decoded |-> out, doneAt |-> at]
    ELSE LET line == Head(lines)
             out1 == IF fetch_line(line) = "yield"
                     THEN Append(out, Slice6(Trim(line))) ELSE out
             at1 == IF at = -1 /\ IsSentinel(line) THEN Len(out) ELSE at
         IN fetch_lines(Tail(lines), out1, at1)

WireInit ==
    /\ UiUnused
    /\ impl \in Impls
    /\ \E body \in Bodies :
          wire \in IF impl = "AgentLoop" THEN {<<body>>} ELSE Deliveries(body)
    /\ wirePos = 0
    /\ buffer = <<>>
    /\ decoded = <<>>
    /\ wirePc = "opening"
    /\ doneAt = -1
    /\ fullText = <<>>
    /\ toolCalls = <<>>
    /\ now = 0
    /\ accPc = "finished"
    /\ roundToolCalls = <<>>
    /\ sentArgs = [i \in Indices |-> <<>>]
    /\ sentNames = [i \in Indices |-> <<>>]
    /\ nFrags = 0
    /\ executor = "ToolExecutor"
    /\ ExecUnused
    /\ EditUnused
    /\ pc = "idle"
    /\ messages = <<>>
    /\ rounds = 0
    /\ requests = 0
    /\ events = <<>>
    /\ chunkPos = 0
    /\ execIdx = 0
    /\ results = <<>>
    /\ abortController = "null"
    /\ aborted = FALSE
    /\ roundSignal = "none"
    /\ script = NoScript
    /\ cancelled = FALSE
    /\ cancelPc = "idle"
    /\ eventsAtCancel = 0
    /\ lenAtRoundStart = 0
    /\ pat = NoPat
    /\ token = NoToken
    /\ bearer = Null
    /\ exchPat = NoPat
    /\ exchanges = 0
    /\ sendNo = 0
    /\ settingsPat = NoPat
    /\ agentLoop = "null"

wireFrame == <<executor, editVars, execVars, accVars, loopVars, credVars, wire, uiVars>>

\* the signal streamChat was given fires; the model notes how many chunks
\* had been yielded by then
AbortSignal_abort ==
    /\ wirePc \in {"opening", "reading"}
    /\ ~aborted
    /\ aborted' = TRUE
    /\ cancelled' = TRUE
    /\ eventsAtCancel' = Len(decoded)
    /\ UNCHANGED <<executor, editVars, execVars, accVars, credVars, wireVars, uiVars,
                   pc, messages, rounds, requests, events, chunkPos, execIdx, results,
                   abortController, roundSignal, script, cancelPc, lenAtRoundStart>>

\* streamChat over requestUrl: requestUrl, which is not given the signal,
\* settles with the whole response
streamChat_requestUrl_open ==
    /\ impl = "AgentLoop"
    /\ wirePc = "opening"
    /\ wirePc' = IF aborted THEN "returned" ELSE "reading"
    /\ UNCHANGED <<wirePos, buffer, decoded, doneAt, wireFrame>>

\* streamChat over fetch: fetch settles; it rejects when its signal has fired
streamChat_fetch_open ==
    /\ impl = "CopilotService"
    /\ wirePc = "opening"
    /\ wirePc' = IF aborted THEN "threw" ELSE "reading"
    /\ UNCHANGED <<wirePos, buffer, decoded, doneAt, wireFrame>>

\* streamChat over requestUrl: the next line of resp.text
streamChat_requestUrl_line ==
    /\ impl = "AgentLoop"
    /\ wirePc = "reading"
    /\ LET lines == SplitLines(wire[1])
       IN IF aborted \/ wirePos = Len(lines)
          THEN /\ wirePc' = "returned"
               /\ UNCHANGED <<wirePos, decoded, doneAt>>
          ELSE LET line == lines[wirePos + 1]
                   step == requestUrl_line(line)
               IN /\ wirePos' = wirePos + 1
                  /\ wirePc' = IF step = "return" THEN "returned" ELSE "reading"
                  /\ decoded' = IF step = "yield" THEN Append(decoded, Slice6(Trim(line)))
                                ELSE decoded
                  /\ doneAt' = IF doneAt = -1 /\ IsSentinel(line) THEN Len(decoded)
                               ELSE doneAt
    /\ UNCHANGED <<buffer, wireFrame>>

\* streamChat over fetch: reader.read() settles, with the next piece or done
streamChat_fetch_read ==
    /\ impl = "CopilotService"
    /\ wirePc = "reading"
    /\ IF aborted
       THEN /\ wirePc' = "threw"
            /\ UNCHANGED <<wirePos, buffer, decoded, doneAt>>
       ELSE IF wirePos = Len(wire)
       THEN /\ wirePc' = "returned"
            /\ UNCHANGED <<wirePos, buffer, decoded, doneAt>>
       ELSE LET lines == SplitLines(buffer \o wire[wirePos + 1])
                done == fetch_lines(SubSeq(lines, 1, Len(lines) - 1), decoded, doneAt)
            IN /\ wirePos' = wirePos + 1
               /\ buffer' = lines[Len(lines)]
               /\ decoded' = done.decoded
               /\ doneAt' = done.doneAt
               /\ UNCHANGED wirePc
    /\ UNCHANGED wireFrame

WireNext ==
    \/ AbortSignal_abort
    \/ streamChat_requestUrl_open
    \/ streamChat_fetch_open
    \/ streamChat_requestUrl_line
    \/ streamChat_fetch_read

SpecWire == WireInit /\ [][WireNext]_vars

\* C20: once the decoder has read the line data: [DONE] it yields no
\* further chunk, whatever records follow it in the response.
C20_NothingAfterDone ==
    doneAt # -1 => Len(decoded) = doneAt

\* the response body as a whole
RECURSIVE Concat(_)
Concat(pieces) == IF pieces = <<>> THEN <<>> ELSE Head(pieces) \o Concat(Tail(pieces))
WireBody == Concat(wire)

\* the lines of the body before its first sentinel line
RECURSIVE BeforeSentinel(_)
BeforeSentinel(lines) ==
    IF lines = <<>> \/ IsSentinel(Head(lines)) THEN <<>>
    ELSE <<Head(lines)>> \o BeforeSentinel(Tail(lines))

\* a data line whose payload is valid JSON
WellFormedLine(line) == StartsWithData(Trim(line)) /\ JSONParses(Slice6(Trim(line)))

\* the payloads of the well-formed data lines among lines, in order
PayloadsOf(lines) ==
    LET good == SelectSeq(lines, WellFormedLine)
    IN [k \in 1..Len(good) |-> Slice6(Trim(good[k]))]

\* the lines of the body that end with a line feed
TerminatedLines ==
    LET lines == SplitLines(WireBody) IN SubSeq(lines, 1, Len(lines) - 1)

\* the chunks yielded before the sentinel was read
DecodedBeforeSentinel == IF doneAt = -1 THEN decoded ELSE SubSeq(decoded, 1, doneAt)

\* C21 as the spec states it: when the decoder has returned, the chunks it
\* yielded before the sentinel are those of the well-formed data lines of
\* the response before the sentinel, in response order, whatever other
\* lines lie between them.
C21_GarbledLinesSkipped ==
    (wirePc = "returned" /\ ~aborted) =>
        DecodedBeforeSentinel = PayloadsOf(BeforeSentinel(SplitLines(WireBody)))

\* C21: when the decoder has returned, the chunks it yielded before the
\* sentinel are those of the well-formed data lines before the sentinel,
\* in response order; lines without the data prefix and payloads that are
\* not JSON yield nothing and stop nothing.  The decoder over fetch counts
\* as lines only what a line feed ends: it drops a last line the response
\* leaves unterminated.  Stated of a call whose signal does not fire.
C21_GarbledLinesSkippedTerminated ==
    (wirePc = "returned" /\ ~aborted) =>
        DecodedBeforeSentinel =
            PayloadsOf(BeforeSentinel(IF impl = "AgentLoop" THEN SplitLines(WireBody)
                                      ELSE TerminatedLines))

\* a chunk was yielded for a data line that follows a garbled payload and a
\* line without the prefix
C21_Witness ==
    /\ wirePc = "returned"
    /\ ~aborted
    /\ WireBody = <<DATA, "{bad", NL, DATA_NOSPACE, "{a}", NL, DATA, "{b}", NL>>
    /\ decoded = << <<"{b}">> >>

\* C22: once the signal has fired while the decoder is opening or reading
\* the stream, the decoder yields no further chunk and does not throw.
C22_AbortEndsQuietly ==
    cancelled =>
        /\ Len(decoded) = eventsAtCancel
        /\ wirePc # "threw"

\* the assistant message nearest before the message at k; 0 when there is none
NearestAssistant(k) ==
    LET before == {a \in 1..(k - 1) : messages[a].role = "assistant"}
    IN IF before = {} THEN 0 ELSE CHOOSE a \in before : \A b \in before : b <= a

\* the tool calls of the assistant message at a that carry the id
CallsWithId(a, id) == {j \in 1..Len(messages[a].tool_calls) : messages[a].tool_calls[j].id = id}

ToolMessages == {k \in 1..Len(messages) : messages[k].role = "tool"}

\* C23: in the history, every tool message follows an assistant message
\* with only tool messages between them, its tool_call_id is the id of
\* exactly one tool call of that assistant message, and the tool messages
\* behind one assistant message answer its tool calls in their listed order.
C23_ToolMessagesMatchCalls ==
    \A k \in ToolMessages :
        LET a == NearestAssistant(k)
        IN /\ a # 0
           /\ \A b \in (a + 1)..(k - 1) : messages[b].role = "tool"
           /\ Cardinality(CallsWithId(a, messages[k].tool_call_id)) = 1
           /\ \A l \in ToolMessages :
                 (l < k /\ NearestAssistant(l) = a) =>
                     \A i \in CallsWithId(a, messages[l].tool_call_id) :
                         \A j \in CallsWithId(a, messages[k].tool_call_id) : i < j

\* a step that starts the execution of a tool call
ExecutionStarts ==
    /\ pc' = "exec"
    /\ pc # "exec" \/ execIdx' # execIdx

\* a step that sends a chat request
RoundStarts == requests' > requests

\* C24: once cancel() has been called during a send, no step of that send
\* starts the execution of a tool call or sends a chat request, also when
\* the cancel arrives during a tool execution with more tool calls pending.
C24_NothingNewAfterCancel ==
    [][(cancelled /\ cancelled') => (~ExecutionStarts /\ ~RoundStarts)]_vars

ToolResultEvents(evs) == {e \in 1..Len(evs) : evs[e].type = "tool-result"}

ToolMessagesOf(msgs) == {k \in 1..Len(msgs) : msgs[k].role = "tool"}

\* C25: when cancel() arrives while a tool execution is in progress, no
\* later step of the send appends a tool message to the history or emits a
\* tool-result event.
C25_ResultAfterCancelDiscarded ==
    [][(cancelled /\ cancelled' /\ cancelPc = "exec") =>
           /\ ToolMessagesOf(messages') \subseteq ToolMessagesOf(messages)
           /\ ToolResultEvents(events') \subseteq ToolResultEvents(events)]_vars

\* a step that sends the chat request of a round after the first of a send
LaterRoundStarts == rounds' > rounds /\ rounds' > 1

\* the credential sent with the request is the cached one and, at the time
\* of the step, within the buffer before its expiry
BearerStale == bearer' = token'.token /\ isTokenExpired(token'.expiresAt)

\* C26: no round after the first of a send sends its chat request with a
\* bearer credential that is inside the 5-minute expiry buffer when the
\* round starts.
C26_NoStaleBearerInLaterRounds ==
    [][(script.secret = "keep" /\ LaterRoundStarts) => ~BearerStale]_vars

RECURSIVE CallIds(_)
\* the ids of the tool calls of the assistant messages of msgs, in order
CallIds(msgs) ==
    IF msgs = <<>> THEN <<>>
    ELSE (IF Head(msgs).role = "assistant"
          THEN [j \in 1..Len(Head(msgs).tool_calls) |-> Head(msgs).tool_calls[j].id]
          ELSE <<>>) \o CallIds(Tail(msgs))

RECURSIVE ResultIds(_)
\* the ids of the tool-result events of evs, in order
ResultIds(evs) ==
    IF evs = <<>> THEN <<>>
    ELSE (IF Head(evs).type = "tool-result" THEN <<Head(evs).id>> ELSE <<>>)
         \o ResultIds(Tail(evs))

\* the events of evs that tell of a tool execution: its start (CopilotService
\* only, whose tool-start event is emitted when the execution is begun) and
\* its result
ExecutionEvents(evs) ==
    SelectSeq(evs, LAMBDA e : e.type = "tool-result"
                              \/ (impl = "CopilotService" /\ e.type = "tool-start"))

\* C27: while the k-th tool call of a round is executed, the executions
\* that have returned and emitted their tool-result event are exactly those
\* of the earlier rounds and of the first k-1 tool calls of this round, in the
\* order in which the assistant messages list the calls; in CopilotService
\* every execution is begun only after the result of the one before it.
C27_ToolCallsInListedOrder ==
    (pc = "exec" /\ sendNo <= 1) =>
        LET calls == CallIds(messages)
            done == Len(calls) - Len(roundToolCalls) + execIdx - 1
            tell == ExecutionEvents(events)
        IN /\ done >= 0
           /\ ResultIds(events) = SubSeq(calls, 1, done)
           /\ calls[done + 1] = roundToolCalls[execIdx].id
           /\ impl = "CopilotService" =>
                 /\ Len(tell) = 2 * done + 1
                 /\ \A e \in 1..Len(tell) :
                       tell[e].type = (IF e % 2 = 1 THEN "tool-start" ELSE "tool-result")

\* the second of two tool calls, listed in another order than the wire
\* sent them, is executed after the first has answered
C27_Witness ==
    /\ pc = "exec"
    /\ sendNo <= 1
    /\ script.toolKind = "two_rev"
    /\ execIdx = 2
    /\ rounds = 2
    /\ Len(ResultIds(events)) = 3

\* the ids of the descriptors of the round that has just finished
FinishedIds == [k \in 1..Len(roundToolCalls) |-> roundToolCalls[k].id]

\* C28: every tool-call descriptor of a finished round has a non-empty id,
\* and the ids of the descriptors of one round are pairwise different, also
\* when the stream carries no id for some or all positions.
C28_IdsPresentAndDistinct ==
    (pc = "exec" /\ script.failKind = "none") =>
        /\ \A k \in 1..Len(roundToolCalls) : FinishedIds[k] \notin {<<>>, Absent}
        /\ \A k, l \in 1..Len(roundToolCalls) : k # l => FinishedIds[k] # FinishedIds[l]

\* the ids the fragments of an index carried in the stream of a round
IdsOnWire(s, r, index) ==
    LET chunks == Chunks(s, r)
    IN {chunks[c].tool_calls[f].id :
            <<c, f>> \in {cf \in (1..Len(chunks)) \X (1..2) :
                             /\ cf[2] <= Len(chunks[cf[1]].tool_calls)
                             /\ chunks[cf[1]].tool_calls[cf[2]].index = index}}
       \ {Absent}

\* C29: when a fragment of a positional index carried an id, in the first
\* fragment of the index or in a later one, the finished descriptor of the
\* index carries that id and not a synthesized one.
C29_WireIdWins ==
    (pc = "exec" /\ script.failKind = "none") =>
        \A k \in 1..Len(roundToolCalls) :
            LET d == roundToolCalls[k]
            IN IdsOnWire(script, rounds, d.index) # {} =>
                   d.id \in IdsOnWire(script, rounds, d.index)

TextDeltaEvents(evs) == {e \in 1..Len(evs) : evs[e].type = "text-delta"}

\* C30: when the stream of a round of AgentLoop fails after text of the round
\* has been emitted (fullText is the text emitted in the round so far), no
\* fallback request is made, and none of that text is emitted again.
C30_NoFallbackAfterText ==
    [][(impl = "AgentLoop" /\ fullText # <<>>) =>
           /\ pc' = "fallback" => pc = "fallback"
           /\ pc = "fallback" => TextDeltaEvents(events') \subseteq TextDeltaEvents(events)]_vars

\* a step in which a round of a send that was not cancelled ends without
\* tool calls and without a failure: the send returns from inside a round
\* and no error is reported
RoundCompletesWithoutTools ==
    /\ pc \in {"request", "stream", "chunk", "fallback"}
    /\ pc' = "done"
    /\ ~cancelled
    /\ ~cancelled'
    /\ \A e \in (Len(events) + 1)..Len(events') : events'[e].type # "error"

\* the events a step adds
EventsAdded == SubSeq(events', Len(events) + 1, Len(events'))

\* the step appends one assistant message without tool calls whose content
\* is the text of the round, null when there is none, tells the text and
\* then the completion
AppendsFinalAssistant ==
    LET m == messages'[Len(messages')]
        added == [k \in 1..Len(EventsAdded) |-> EventsAdded[k].type]
    IN /\ Len(messages') = Len(messages) + 1
       /\ SubSeq(messages', 1, Len(messages)) = messages
       /\ m.role = "assistant"
       /\ m.tool_calls = <<>>
       /\ m.content # <<>>
       /\ pc = "stream" => m.content = (IF fullText = <<>> THEN Null ELSE fullText)
       /\ m.content = Null => added = <<"done">>
       /\ m.content # Null =>
             /\ Len(added) >= 2
             /\ added[Len(added)] = "done"
             /\ EventsAdded[Len(added) - 1] = Event("text-done", Absent, m.content, FALSE)
             /\ \A k \in 1..(Len(added) - 2) : added[k] = "text-delta"

MaxUiSends == 2
MaxUiRounds == 2

UiInit ==
    /\ UiUnused
    /\ executor = "ToolExecutor"
    /\ EditUnused
    /\ ExecUnused
    /\ AccUnused
    /\ LoopUnused

uiFrame == <<executor, editVars, execVars, accVars, loopVars, credVars, wireVars>>

\* the sends that have not returned
InFlight == {s \in 1..Len(sends) : sends[s].at # "returned"}

InFlightOn(l) == {s \in InFlight : sends[s].loop = l}

\* AgentLoop.cancel on the loop the view holds: abortController?.abort()
AgentLoop_cancel_of(l) ==
    IF l # 0 /\ controller[l] # 0
    THEN [sends EXCEPT ![controller[l]].aborted = TRUE]
    ELSE sends

\* StreamController.endResponse: state.setStreaming(false), whose callback
\* is InputController.setStreaming
StreamController_endResponse ==
    /\ stateStreaming' = FALSE
    /\ inputStreaming' = FALSE

\* Enter or the send button with text in the input: InputController.handleSend,
\* ChatView.handleSend with ensureAgentLoop and beginResponse, and
\* AgentLoop.send up to its first await
InputController_handleSend ==
    /\ ~inputStreaming
    /\ Len(sends) < MaxUiSends
    /\ viewLoop # 0 \/ loops < MaxLoops
    /\ LET l == IF viewLoop # 0 THEN viewLoop ELSE loops + 1
           h == IF viewLoop # 0 THEN history[l] ELSE <<"system">>
       IN /\ viewLoop' = l
          /\ loops' = IF viewLoop # 0 THEN loops ELSE loops + 1
          /\ stateStreaming' = TRUE
          /\ inputStreaming' = TRUE
          /\ controller' = [controller EXCEPT ![l] = Len(sends) + 1]
          /\ history' = [history EXCEPT ![l] = Append(h, "user")]
          /\ sends' = Append(sends, [loop |-> l, at |-> "token", aborted |-> FALSE,
                                     rounds |-> 0])
    /\ UNCHANGED uiFrame

\* the send returns without a callback
ReturnQuietly(s) ==
    /\ sends' = [sends EXCEPT ![s].at = "returned"]
    /\ UNCHANGED <<stateStreaming, inputStreaming, history>>

\* the send returns after onDone or onError (handleDone, handleError), with
\* the history h of its loop
ReturnWithCallback(s, h) ==
    /\ sends' = [sends EXCEPT ![s].at = "returned"]
    /\ history' = [history EXCEPT ![sends[s].loop] = h]
    /\ StreamController_endResponse

\* the while loop of send begins a round: processRound awaits the request
BeginRound(s, h) ==
    IF sends[s].aborted
    THEN /\ sends' = [sends EXCEPT ![s].at = "returned"]
         /\ history' = [history EXCEPT ![sends[s].loop] = h]
         /\ UNCHANGED <<stateStreaming, inputStreaming>>
    ELSE /\ sends' = [sends EXCEPT ![s].at = "request", ![s].rounds = @ + 1]
         /\ history' = [history EXCEPT ![sends[s].loop] = h]
         /\ UNCHANGED <<stateStreaming, inputStreaming>>

\* ensureToken of send s settles
UiSend_ensureToken(s, ok) ==
    /\ s \in 1..Len(sends)
    /\ sends[s].at = "token"
    /\ IF ok THEN BeginRound(s, history[sends[s].loop])
       ELSE IF sends[s].aborted THEN ReturnQuietly(s)
       ELSE ReturnWithCallback(s, history[sends[s].loop])
    /\ UNCHANGED <<viewLoop, loops, controller, uiFrame>>

\* the chat request of the round of send s settles with text, with a tool
\* call, or fails (and so does the fallback)
UiSend_processRound(s, answer) ==
    /\ s \in 1..Len(sends)
    /\ sends[s].at = "request"
    /\ answer = "tools" => sends[s].rounds < MaxUiRounds
    /\ LET l == sends[s].loop
       IN IF answer = "fail"
          THEN IF sends[s].aborted THEN ReturnQuietly(s)
               ELSE ReturnWithCallback(s, history[l])
          ELSE IF sends[s].aborted \/ answer = "text"
          THEN ReturnWithCallback(s, Append(history[l], "assistant"))
          ELSE /\ sends' = [sends EXCEPT ![s].at = "exec"]
               /\ history' = [history EXCEPT ![l] = Append(@, "assistant_tools")]
               /\ UNCHANGED <<stateStreaming, inputStreaming>>
    /\ UNCHANGED <<viewLoop, loops, controller, uiFrame>>

\* executor.execute of the tool call of send s settles
UiSend_executeToolCalls(s) ==
    /\ s \in 1..Len(sends)
    /\ sends[s].at = "exec"
    /\ IF sends[s].aborted THEN ReturnQuietly(s)
       ELSE BeginRound(s, Append(history[sends[s].loop], "tool"))
    /\ UNCHANGED <<viewLoop, loops, controller, uiFrame>>

\* Escape or the button while it is the cancel button: ChatView.handleCancel
ChatView_handleCancel ==
    /\ inputStreaming
    /\ sends' = AgentLoop_cancel_of(viewLoop)
    /\ StreamController_endResponse
    /\ UNCHANGED <<viewLoop, loops, history, controller, uiFrame>>

\* ChatState.clear
ChatState_clear == stateStreaming' = FALSE

\* the new-chat button: ChatView.newConversation with AgentLoop.cancel,
\* AgentLoop.clearHistory and ChatState.clear
NewChatButton_click ==
    /\ sends' = AgentLoop_cancel_of(viewLoop)
    /\ history' = IF viewLoop # 0 THEN [history EXCEPT ![viewLoop] = <<"system">>]
                  ELSE history
    /\ viewLoop' = 0
    /\ ChatState_clear
    /\ UNCHANGED <<inputStreaming, loops, controller, uiFrame>>

UiNext ==
    \/ InputController_handleSend
    \/ \E s \in 1..MaxUiSends : \E ok \in BOOLEAN : UiSend_ensureToken(s, ok)
    \/ \E s \in 1..MaxUiSends : \E answer \in {"text", "tools", "fail"} :
           UiSend_processRound(s, answer)
    \/ \E s \in 1..MaxUiSends : UiSend_executeToolCalls(s)
    \/ ChatView_handleCancel
    \/ NewChatButton_click

SpecUI == UiInit /\ [][UiNext]_vars

IsPrefix(a, b) == Len(a) <= Len(b) /\ SubSeq(b, 1, Len(a)) = a

\* C32: while a send is executing on a loop, every step leaves the history
\* of that loop as it was or appends to it: the history before the step is
\* a prefix of the history after it.
C32_HistoryAppendOnly ==
    [][\A l \in 1..MaxLoops : InFlightOn(l) # {} => IsPrefix(history[l], history'[l])]_vars

\* C33: at most one send is executing on a loop object at any time.
C33_OneSendPerLoop ==
    \A l \in 1..MaxLoops : Cardinality(InFlightOn(l)) <= 1

\* C39: InputController.isStreaming and ChatState.isStreaming agree, and
\* both are false whenever no send is in flight.
C39_StreamingFlagsAgree ==
    /\ inputStreaming = stateStreaming
    /\ InFlight = {} => (~inputStreaming /\ ~stateStreaming)

\* the result streamOneRound returns, once the round is over
RoundResult ==
    [textContent |-> fullText,
     toolCalls |-> roundToolCalls,
     error |-> accPc = "failed",
     aborted |-> accPc = "aborted"]

\* C34: a round result of CopilotService.streamOneRound never has both an
\* error and a non-empty toolCalls list, and a result with aborted: true has
\* an empty toolCalls list.
C34_NoToolCallsWithError ==
    (impl = "CopilotService" /\ accPc # "streaming") =>
        /\ RoundResult.error => RoundResult.toolCalls = <<>>
        /\ RoundResult.aborted => RoundResult.toolCalls = <<>>

\* the stream failed after fragments of two tool calls and some text had
\* been accumulated
C34_Witness ==
    /\ impl = "CopilotService"
    /\ accPc = "failed"
    /\ Len(toolCalls) = 2
    /\ fullText # <<>>
    /\ RoundResult.toolCalls = <<>>

\* the assistant message at k is answered: one tool message for each of
\* its tool calls follows it, in their order
Answered(k) ==
    LET tcs == messages[k].tool_calls
    IN /\ Len(messages) >= k + Len(tcs)
       /\ \A j \in 1..Len(tcs) :
             /\ messages[k + j].role = "tool"
             /\ messages[k + j].tool_call_id = tcs[j].id
       /\ Len(messages) > k + Len(tcs) => messages[k + Len(tcs) + 1].role # "tool"

\* C35: whenever a send of AgentLoop has returned, every assistant message
\* of the history that carries tool calls is followed at once by exactly
\* one tool message for each of them.
C35_NoUnansweredToolCalls ==
    (impl = "AgentLoop" /\ pc = "done") =>
        \A k \in 1..Len(messages) :
            (messages[k].role = "assistant" /\ messages[k].tool_calls # <<>>) => Answered(k)

\* the positions of the terminal events, done and error, among the events
\* of the send
TerminalEvents == {e \in 1..Len(events) : events[e].type \in {"done", "error"}}

\* C36: a send or query emits at most one terminal event, done or error,
\* and no event after it; when it has returned without having been
\* cancelled it has emitted exactly one.
C36_OneTerminalEvent ==
    /\ Cardinality(TerminalEvents) <= 1
    /\ TerminalEvents \subseteq {Len(events)}
    /\ (pc = "done" /\ ~cancelled) => Cardinality(TerminalEvents) = 1

\* a query that was not cancelled has emitted text and tool events, and
\* then the error of a failed chat request as its one terminal event
C36_Witness ==
    /\ impl = "CopilotService"
    /\ pc = "done"
    /\ ~cancelled
    /\ script.failKind = "request"
    /\ Len(events) >= 3
    /\ events[Len(events)].type = "error"
    /\ Cardinality(TerminalEvents) = 1

\* the tool-start events with the id that come before the event at e
StartsBefore(e, id) == {k \in 1..(e - 1) : events[k].type = "tool-start" /\ events[k].id = id}

\* C37: in AgentLoop every tool-result event is preceded, in the same send,
\* by exactly one tool-start event that carries the same id.
C37_ResultHasOneStart ==
    impl = "AgentLoop" =>
        \A e \in 1..Len(events) :
            events[e].type = "tool-result" =>
                Cardinality(StartsBefore(e, events[e].id)) = 1

\* what a tool call is, apart from its position
Descriptors(tcs) ==
    {[id |-> tcs[j].id, name |-> tcs[j].name, arguments |-> tcs[j].arguments] :
         j \in 1..Len(tcs)}

\* a step in which the non-streaming request of a round of AgentLoop is
\* answered
FallbackAnswered ==
    /\ impl = "AgentLoop"
    /\ pc = "fallback"
    /\ pc' # "fallback"
    /\ script.fallbackOk

\* C38: when a round of AgentLoop falls back to the non-streaming request,
\* the assistant message recorded for the round has the text of the
\* non-streaming response (null when it has none) and exactly its tool
\* calls.
C38_FallbackReplacesStream ==
    [][FallbackAnswered =>
           LET m == messages'[Len(messages')]
               response == WholeAnswer(script, rounds)
           IN /\ Len(messages') = Len(messages) + 1
              /\ m.role = "assistant"
              /\ m.content = (IF response.content \in {Null, <<>>} THEN Null
                              ELSE response.content)
              /\ Descriptors(m.tool_calls) = Descriptors(response.tool_calls)
              /\ Len(m.tool_calls) = Len(response.tool_calls)]_vars

\* C40: when the decoder over fetch has returned, it has yielded one chunk
\* for every well-formed data line of the response, in order, however the
\* body was split across reads, the last line included when the response
\* ends without a line feed.
C40_EveryRecordOnce ==
    (impl = "CopilotService" /\ wirePc = "returned" /\ ~aborted) =>
        decoded = PayloadsOf(SplitLines(WireBody))

====
